---- MODULE Spec2Model ----
(***************************************************************************)
(* Model of api/discord.py: a FastAPI webhook that verifies a Discord      *)
(* interaction's signature, dispatches it by interaction type and command  *)
(* name / component id / modal id, reads and appends rows of a Google      *)
(* Sheets spreadsheet and posts follow-up messages to Discord.             *)
(*                                                                         *)
(* Text that the code inspects character by character (hex strings, names, *)
(* dates, reasons, chat cards) is a sequence of one-character strings; a   *)
(* newline is the element "NL" and an emoji is one element such as         *)
(* "<inbox>".  Identifiers that the code only compares or tests for        *)
(* emptiness (channel ids, user ids, tokens) are TLA+ strings.             *)
(***************************************************************************)
EXTENDS Integers, Sequences, FiniteSets, TLC

VARIABLES
    cfg,        \* the environment-derived module globals (lines 34-52)
    today,      \* the current IST calendar day, as a day number
    sheets,     \* the spreadsheet: sheet name -> sequence of rows
    messages,   \* the chat messages the bot has posted, by position
    modals,     \* the modals Discord currently shows to users
    last,       \* the most recent interaction: request, effects, response
    steps,      \* number of interactions handled so far
    sigIn,      \* SpecSig: the arguments of verify_signature
    sigOut,     \* SpecSig: its outcome
    cardIn,     \* SpecCard: the request being formatted
    cardText,   \* SpecCard: the card text
    cardOut,    \* SpecCard: the fields parsed back
    procs,      \* SpecConc: the in-flight handler invocations
    decided     \* history: the decision rows written, by request card

vars == <<cfg, today, sheets, messages, modals, last, steps,
          sigIn, sigOut, cardIn, cardText, cardOut, procs, decided>>

(***************************************************************************)
(* Text helpers: Python str operations on sequences of characters.         *)
(***************************************************************************)
NL == "NL"
\* s.find(p) + 1: the position of the first occurrence of p in t, 0 if none
Find(p, t) ==
    LET hits == {i \in 1..(Len(t) - Len(p) + 1) : SubSeq(t, i, i + Len(p) - 1) = p}
    IN  IF hits = {} THEN 0 ELSE CHOOSE i \in hits : \A j \in hits : i <= j

\* p in t
Contains(p, t) == Find(p, t) > 0

\* t.split(p, 1)[1], for p in t
AfterFirst(p, t) == SubSeq(t, Find(p, t) + Len(p), Len(t))

\* t.split("\n", 1)[0]
FirstLine(t) ==
    LET i == Find(<<NL>>, t) IN IF i = 0 THEN t ELSE SubSeq(t, 1, i - 1)

\* t.strip(chars)
StripChars(t, chars) ==
    LET keep == {i \in 1..Len(t) : t[i] \notin chars}
    IN  IF keep = {} THEN <<>>
        ELSE SubSeq(t, CHOOSE i \in keep : \A j \in keep : i <= j,
                       CHOOSE i \in keep : \A j \in keep : i >= j)

\* t.strip()
Strip(t) == StripChars(t, {" ", NL, "TAB"})

LowerChar(c) ==
    CASE c = "A" -> "a" [] c = "B" -> "b" [] c = "S" -> "s" [] c = "M" -> "m"
      [] c = "L" -> "l" [] c = "O" -> "o" [] OTHER -> c

\* t.lower()
Lower(t) == [i \in 1..Len(t) |-> LowerChar(t[i])]

(***************************************************************************)
(* Signature verification (verify_signature, lines 304-312).               *)
(***************************************************************************)
HexDigits == <<"0","1","2","3","4","5","6","7","8","9","a","b","c","d","e","f">>

HexVal(c) == (CHOOSE i \in 1..16 : HexDigits[i] = c) - 1

IsHexChar(c) == \E i \in 1..16 : HexDigits[i] = c

\* bytes.fromhex(s): the bytes; err for an odd length or a character that
\* is no hex digit (ValueError)
fromhex(s) ==
    IF Len(s) % 2 # 0 \/ \E i \in 1..Len(s) : ~IsHexChar(s[i])
    THEN [err |-> TRUE, val |-> <<>>]
    ELSE [err |-> FALSE,
          val |-> [i \in 1..(Len(s) \div 2) |->
                      16 * HexVal(s[2*i - 1]) + HexVal(s[2*i])]]

\* bytes.hex()
tohex(bs) ==
    [i \in 1..(2 * Len(bs)) |->
        IF i % 2 = 1 THEN HexDigits[(bs[(i + 1) \div 2] \div 16) + 1]
                     ELSE HexDigits[(bs[i \div 2] % 16) + 1]]

\* str.encode(): one byte per character of the timestamp header
CharCode(c) == IF IsHexChar(c) THEN 48 + HexVal(c) ELSE 63

encode(s) == [i \in 1..Len(s) |-> CharCode(s[i])]

RECURSIVE SumBytes(_)
SumBytes(bs) == IF bs = <<>> THEN 0 ELSE bs[1] + SumBytes(Tail(bs))

\* A deterministic one-byte scheme standing in for Ed25519: a key is one
\* byte, and the detached signature of msg under the key k is the byte
\* (k + 3 * sum(msg) + len(msg)) mod 256.
SignatureOf(keyBytes, msg) ==
    <<(keyBytes[1] + 3 * SumBytes(msg) + Len(msg)) % 256>>

\* nacl.signing.VerifyKey(key_bytes): raises on a key of the wrong length
VerifyKeyRaises(keyBytes) == Len(keyBytes) # 1

\* verify_key.verify(msg, sig): raises BadSignatureError unless sig is the
\* signature of msg
VerifyRaises(keyBytes, msg, sig) == sig # SignatureOf(keyBytes, msg)

\* the try block of lines 308-310: TRUE when it runs to `return True`,
\* FALSE when any of its calls raises
TryVerify(signature, timestamp, body) ==
    LET key == fromhex(cfg.DISCORD_PUBLIC_KEY)
        sig == fromhex(signature)
    IN  /\ ~key.err
        /\ ~VerifyKeyRaises(key.val)
        /\ ~sig.err
        /\ ~VerifyRaises(key.val, encode(timestamp) \o body, sig.val)

\* verify_signature with its handler narrowed to BadSignatureError: a
\* malformed hex string raises ValueError to the caller
verify_signature_uncaught(signature, timestamp, body) ==
    IF cfg.DISCORD_PUBLIC_KEY = <<>> THEN "False"
    ELSE IF TryVerify(signature, timestamp, body) THEN "True"
    ELSE IF fromhex(signature).err THEN "Raise"
    ELSE "False"

\* verify_signature: "True" or "False"; "Raise" stands for an exception
\* that reaches the caller
verify_signature(signature, timestamp, body) ==
    IF cfg.DISCORD_PUBLIC_KEY = <<>> THEN "False"
    ELSE IF TryVerify(signature, timestamp, body) THEN "True"
    ELSE "False"

(***************************************************************************)
(* Bounds of the model.                                                    *)
(***************************************************************************)
MaxDay == 2

MaxAttSteps == 5

(***************************************************************************)
(* Configuration: the module globals read from the environment (34-52).    *)
(***************************************************************************)
PUBLIC_KEY_HEX == <<"0","a">>

\* every variable set
CfgFull ==
    [DISCORD_PUBLIC_KEY          |-> PUBLIC_KEY_HEX,
     SERVICE_ACCOUNT_JSON        |-> "sa",
     BOT_TOKEN                   |-> "tok",
     ADMIN_SUBJECT               |-> "admin",
     FINANCE_CHANNEL_ID          |-> "c_fin",
     APPROVER_CHANNEL_ID         |-> "c_appr",
     APPROVER_USER_ID            |-> "",
     LEAVE_STATUS_CHANNEL_ID     |-> "c_status",
     HR_ROLE_ID                  |-> "r_hr",
     ATTENDANCE_CHANNEL_ID       |-> "c_att",
     CONTENT_REQUESTS_CHANNEL_ID |-> "c_creq",
     ASSETS_REVIEWS_CHANNEL_ID   |-> "c_arev",
     LEAVE_REQUESTS_CHANNEL_ID   |-> "c_leave",
     CONTENT_TEAM_CHANNEL_ID     |-> "c_team"]

\* the channel and role variables unset: os.environ.get(..., "") gives ""
CfgNoChannels ==
    [CfgFull EXCEPT !.FINANCE_CHANNEL_ID = "", !.APPROVER_CHANNEL_ID = "",
                    !.LEAVE_STATUS_CHANNEL_ID = "", !.HR_ROLE_ID = "",
                    !.ATTENDANCE_CHANNEL_ID = "",
                    !.CONTENT_REQUESTS_CHANNEL_ID = "",
                    !.ASSETS_REVIEWS_CHANNEL_ID = "",
                    !.LEAVE_REQUESTS_CHANNEL_ID = "",
                    !.CONTENT_TEAM_CHANNEL_ID = ""]

Configs == {CfgFull, CfgNoChannels}

(***************************************************************************)
(* Values of the variables a specification does not use.                   *)
(***************************************************************************)
SheetNames ==
    {"Attendance", "Leave Requests", "Leave Decisions", "WFH Requests",
     "WFH Decisions", "Invoices", "Invoice Clears", "Taxes",
     "Content Decisions", "Asset Decisions"}

EmptySheets == [s \in SheetNames |-> <<>>]

NoLast == [kind |-> "none"]

NoSig == [signature |-> <<>>, timestamp |-> <<>>, body |-> <<>>]

NoCard == [name |-> <<>>]

(***************************************************************************)
(* SpecSig: verify_signature applied to bounded inputs.                    *)
(***************************************************************************)
KeyInputs == {<<>>, PUBLIC_KEY_HEX, <<"z","z">>, <<"0">>, <<"0","a","0","a">>}

TsInputs == {<<>>, <<"1">>, <<"2">>}

BodyInputs == {<<>>, <<1>>, <<2>>}

\* the hex signature Discord sends for (timestamp, body)
GoodSignature(timestamp, body) ==
    tohex(SignatureOf(fromhex(PUBLIC_KEY_HEX).val, encode(timestamp) \o body))

SigInputs ==
    {<<>>, <<"z","z">>, <<"0">>, <<"f","f">>}
        \cup {GoodSignature(t, b) : t \in TsInputs, b \in BodyInputs}

InitSig ==
    /\ cfg \in {[CfgFull EXCEPT !.DISCORD_PUBLIC_KEY = k] : k \in KeyInputs}
    /\ sigIn \in [signature : SigInputs, timestamp : TsInputs, body : BodyInputs]
    /\ sigOut = "none"
    /\ today = 1
    /\ sheets = EmptySheets
    /\ messages = <<>>
    /\ modals = {}
    /\ last = NoLast
    /\ steps = 0
    /\ cardIn = NoCard
    /\ cardText = <<>>
    /\ cardOut = NoCard
    /\ procs = <<>>
    /\ decided = <<>>

CallVerifySignature ==
    /\ sigOut = "none"
    /\ sigOut' = verify_signature(sigIn.signature, sigIn.timestamp, sigIn.body)
    /\ UNCHANGED <<cfg, today, sheets, messages, modals, last, steps,
                   sigIn, cardIn, cardText, cardOut, procs, decided>>

NextSig == CallVerifySignature

SpecSig == InitSig /\ [][NextSig]_vars

\* C2: verify_signature returns a boolean and never raises, whatever the
\* signature, timestamp and body (malformed and empty hex included), and it
\* returns false whenever the public key configuration is empty.
C2_VerifyTotalAndFailsClosed ==
    /\ sigOut \in {"none", "True", "False"}
    /\ (sigOut # "none" /\ cfg.DISCORD_PUBLIC_KEY = <<>>) => sigOut = "False"

\* verify_signature was called with a signature that is no hex string under
\* a configured key, and answered False
C2_Witness ==
    /\ sigOut = "False"
    /\ cfg.DISCORD_PUBLIC_KEY = PUBLIC_KEY_HEX
    /\ fromhex(sigIn.signature).err

(***************************************************************************)
(* Requests, responses and the effects of one interaction.                 *)
(***************************************************************************)
\* payload.member.user / payload.user
U1 == [id |-> "1", global_name |-> <<"S","a","m">>, username |-> <<"s","1">>]
U2 == [id |-> "2", global_name |-> <<>>, username |-> <<"s","a","m">>]

Users == {U1, U2}

\* (user.get("global_name") or user.get("username") or "Unknown").strip()
DisplayName(user) ==
    Strip(IF user.global_name # <<>> THEN user.global_name
          ELSE IF user.username # <<>> THEN user.username
          ELSE <<"U","n","k","n","o","w","n">>)

\* the raw request body, reduced to the byte that carries the interaction
\* type: request.json() of it yields the payload the action is about
RawBody(t) == <<t>>

\* the X-Signature-Ed25519 and X-Signature-Timestamp headers of a request
\* of type t after the lowercase fallback and `or ""` (lines 1092-1098):
\* <<>> is a missing (or empty) header
Headers(t) ==
    [sig : {<<>>, <<"z","z">>, <<"f","f">>, GoodSignature(<<"1">>, RawBody(t))},
     ts  : {<<>>, <<"1">>}]

\* the outcome of the spreadsheet and chat calls of one interaction
Envs == [read : BOOLEAN, append : BOOLEAN, chat : BOOLEAN]

EPHEMERAL == 64

\* a response message that never carries the ephemeral flag
discord_response_public(content, ephemeral) ==
    [type |-> 4, flags |-> 0, msg |-> content]

\* discord_response_message (lines 460-464)
discord_response_message(content, ephemeral) ==
    [type |-> 4, flags |-> IF ephemeral THEN EPHEMERAL ELSE 0, msg |-> content]

\* JSONResponse({"type": 4, "data": {"content": ..., "flags": 1 << 6}})
EphemeralMessage(content) == [type |-> 4, flags |-> EPHEMERAL, msg |-> content]

Text(t) == [text |-> t]

\* one external call: a spreadsheet read or append, a chat API call, ...
Effect(op, target, ok, arg) == [op |-> op, target |-> target, ok |-> ok, arg |-> arg]

\* what a handler does: its response, the external calls it makes in order,
\* and the spreadsheet, chat messages and modals afterwards
Outcome(resp, effects) ==
    [status |-> 200, resp |-> resp, effects |-> effects,
     sheets |-> sheets, messages |-> messages, modals |-> modals,
     decided |-> decided]

\* an exception that no handler catches: FastAPI answers 500 with no
\* interaction response
Unhandled(effects) ==
    [status |-> 500, resp |-> [type |-> 0], effects |-> effects,
     sheets |-> sheets, messages |-> messages, modals |-> modals,
     decided |-> decided]

\* a write that replaces the rows of the sheet by the new row
WriteOverRows(sh, name, row) == [sh EXCEPT ![name] = <<row>>]

\* spreadsheets().values().append: the only write any handler makes
AppendRow(sh, name, row) == [sh EXCEPT ![name] = Append(@, row)]

(***************************************************************************)
(* Channel allow-listing (lines 60-84, 273-284).                           *)
(***************************************************************************)
CMD_ALLOWED_CHANNELS(cmd) ==
    CASE cmd \in {"leaverequest", "wfh", "leavecount"} -> {cfg.LEAVE_REQUESTS_CHANNEL_ID}
      [] cmd = "attendance" -> {cfg.ATTENDANCE_CHANNEL_ID}
      [] cmd \in {"contentrequest", "assetreview"} -> {cfg.CONTENT_TEAM_CHANNEL_ID}
      [] cmd \in {"recordinvoice", "clearinvoice", "viewinvoice",
                  "viewfinstatus", "recordtax"} -> {cfg.FINANCE_CHANNEL_ID}
      [] OTHER -> {}

\* CHANNEL_LABELS.get(c, f"<#{c}>"): a key set twice keeps the later label
CHANNEL_LABELS(c) ==
    CASE c = cfg.FINANCE_CHANNEL_ID          -> "#finance"
      [] c = cfg.CONTENT_TEAM_CHANNEL_ID     -> "#content-team"
      [] c = cfg.ASSETS_REVIEWS_CHANNEL_ID   -> "#assets-reviews"
      [] c = cfg.CONTENT_REQUESTS_CHANNEL_ID -> "#content-requests"
      [] c = cfg.ATTENDANCE_CHANNEL_ID       -> "#attendance"
      [] c = cfg.LEAVE_REQUESTS_CHANNEL_ID   -> "#leave-requests"
      [] OTHER -> "<#id>"

\* channel_allowed without the bool(cid) test
channel_allowed_no_empty_test(cmd, cid) == cid \in CMD_ALLOWED_CHANNELS(cmd)

channel_allowed(cmd, cid) == cid # "" /\ cid \in CMD_ALLOWED_CHANNELS(cmd)

deny_wrong_channel(cmd, cid) ==
    LET allowed == {c \in CMD_ALLOWED_CHANNELS(cmd) : c # ""}
    IN  discord_response_message(
            [text  |-> "wrong channel",
             cmd   |-> cmd,
             where |-> IF allowed = {} THEN {"the configured channel"}
                       ELSE {CHANNEL_LABELS(c) : c \in allowed}],
            TRUE)

(***************************************************************************)
(* The signature gate of discord_interaction (lines 1089-1099).            *)
(***************************************************************************)
\* the gate left out: every request is dispatched
SignatureGateOpen(h, body) == TRUE

\* TRUE when the request goes on to be parsed and dispatched
SignatureGate(h, body) == verify_signature(h.sig, h.ts, body) = "True"

(***************************************************************************)
(* Attendance (lines 467-526, 566-608, 655-742).                           *)
(***************************************************************************)
\* the timestamp cell append_attendance_row writes:
\* strftime("%Y %m %d-%H:%M:%S") of the IST clock
AttendanceTimeVal == [kind |-> "str", fmt |-> "%Y %m %d-%H:%M:%S", day |-> today]

\* _sheets_serial_to_dt_ist: the date of a cell, 0 for None.  A numeric cell
\* is a day count; a string cell is parsed by the first of the strptime
\* patterns of lines 482-488 that fits.
sheets_serial_to_dt_ist(cell) ==
    IF cell.kind = "empty" THEN 0
    ELSE IF cell.kind = "num" THEN cell.day
    ELSE IF cell.fmt \in {"%Y-%m-%d %H:%M:%S", "%Y-%m-%d-%H:%M:%S",
                          "%Y %m %d-%H:%M:%S", "%Y/%m/%d %H:%M:%S", "%Y-%m-%d"}
         THEN cell.day
    ELSE 0

\* a today test by the string path alone: the first whitespace-separated
\* token, split on "-", must start with three numbers
cell_is_today_by_split(cell) ==
    /\ cell.kind = "str"
    /\ cell.fmt \in {"%Y-%m-%d %H:%M:%S", "%Y-%m-%d-%H:%M:%S", "%Y-%m-%d",
                     "%Y-%m-%d %H:%M", "%Y-%m-%d %I:%M:%S %p"}
    /\ cell.day = today

\* the string path of _cell_is_today_ist (lines 512-526): the first
\* whitespace-separated token, split on "-", must start with three numbers
cell_is_today_ist(cell) ==
    LET dt == sheets_serial_to_dt_ist(cell)
    IN  IF dt # 0 THEN dt = today
        ELSE IF cell.kind = "empty" THEN FALSE
        ELSE /\ cell.kind = "str"
             /\ cell.fmt \in {"%Y-%m-%d %H:%M", "%Y-%m-%d %I:%M:%S %p"}
             /\ cell.day = today

\* a row matched by its name alone
row_matches_name(row, target_name, target_user_id) ==
    Lower(Strip(row.name)) = Lower(Strip(target_name))

\* _row_matches_user (lines 576-582)
row_matches_user(row, target_name, target_user_id) ==
    IF row.user_id # "" /\ target_user_id # ""
    THEN row.user_id = target_user_id
    ELSE Lower(Strip(row.name)) = Lower(Strip(target_name))

\* (r[2] or "").strip().lower()
ActionLower(a) ==
    CASE a = "Login" -> "login" [] a = "Logout" -> "logout" [] OTHER -> a

\* get_today_status reporting no logout, whatever the rows
get_today_status_no_logout(name, user_id) ==
    LET mine == {i \in 1..Len(sheets["Attendance"]) :
                    /\ row_matches_user(sheets["Attendance"][i], name, user_id)
                    /\ cell_is_today_ist(sheets["Attendance"][i].ts)}
    IN  [has_login  |-> \E i \in mine : ActionLower(sheets["Attendance"][i].action) = "login",
         has_logout |-> FALSE]

\* get_today_status (lines 584-608); every stored row has its five columns
get_today_status(name, user_id) ==
    LET mine == {i \in 1..Len(sheets["Attendance"]) :
                    /\ row_matches_user(sheets["Attendance"][i], name, user_id)
                    /\ cell_is_today_ist(sheets["Attendance"][i].ts)}
    IN  [has_login  |-> \E i \in mine : ActionLower(sheets["Attendance"][i].action) = "login",
         has_logout |-> \E i \in mine : ActionLower(sheets["Attendance"][i].action) = "logout"]

\* the row of append_attendance_row (lines 655-671)
AttendanceRow(name, action, user_id, progress) ==
    [ts |-> AttendanceTimeVal, name |-> name, action |-> action,
     user_id |-> user_id, progress |-> Strip(progress)]

\* broadcast_attendance (lines 673-742): the channel post and the DM
\* receipt, each in its own try block; nothing of it raises
broadcast_attendance(user_id, fallback_channel_id, chatOk) ==
    LET channel_id == IF cfg.ATTENDANCE_CHANNEL_ID # ""
                      THEN cfg.ATTENDANCE_CHANNEL_ID ELSE fallback_channel_id
    IN  IF cfg.BOT_TOKEN = "" \/ channel_id = "" THEN <<>>
        ELSE <<Effect("post", channel_id, chatOk, "attendance")>>
             \o (IF user_id = "" THEN <<>>
                 ELSE <<Effect("dm_open", user_id, chatOk, "")>>
                      \o (IF chatOk THEN <<Effect("post", "dm", chatOk, "receipt")>>
                          ELSE <<>>))

\* the attendance command after its status read (lines 1204-1241): st is
\* the (has_login, has_logout) that get_today_status returned at line 1203
attendance_act(user, channel_id, env, st) ==
    LET user_id == user.id
        name    == DisplayName(user)
        rd      == Effect("read", "Attendance", env.read, "")
        row     == AttendanceRow(name, "Login", user_id, <<>>)
    IN  IF ~st.has_login
        THEN IF ~env.append
             THEN Outcome(discord_response_message(Text("Failed to record login"), TRUE),
                          <<rd, Effect("append", "Attendance", FALSE, row)>>)
             ELSE [Outcome(discord_response_message(Text("Recorded Login"), TRUE),
                           <<rd, Effect("append", "Attendance", TRUE, row)>>
                               \o broadcast_attendance(user_id, channel_id, env.chat))
                     EXCEPT !.sheets = AppendRow(sheets, "Attendance", row)]
        ELSE IF ~st.has_logout
        THEN [Outcome([type |-> 9, custom_id |-> <<"att_logout_progress", user_id>>], <<rd>>)
                EXCEPT !.modals = modals \cup
                    {[id |-> steps, custom_id |-> <<"att_logout_progress", user_id>>]}]
        ELSE Outcome(discord_response_message(Text("already recorded Login and Logout"), TRUE),
                     <<rd>>)

\* the attendance command (lines 1193-1241)
attendance_command(user, channel_id, env) ==
    IF ~channel_allowed("attendance", channel_id)
    THEN Outcome(deny_wrong_channel("attendance", channel_id), <<>>)
    ELSE IF ~env.read
    THEN Outcome(discord_response_message(Text("Could not read attendance"), TRUE),
                 <<Effect("read", "Attendance", FALSE, "")>>)
    ELSE attendance_act(user, channel_id, env,
                        get_today_status(DisplayName(user), user.id))

\* the modal's re-check skipped: a submitted modal always appends
att_logout_check_skipped(st) == "append"

\* the double check of the logout modal (lines 2012-2017)
att_logout_check(st) ==
    IF ~st.has_login THEN "no login"
    ELSE IF st.has_logout THEN "already"
    ELSE "append"

\* the logout modal submit after its status read (lines 2014-2024)
att_logout_progress_act(user, channel_id, progress, env, st) ==
    LET user_id  == user.id
        reviewer == DisplayName(user)
        rd       == Effect("read", "Attendance", env.read, "")
        row      == AttendanceRow(reviewer, "Logout", user_id, progress)
    IN  IF att_logout_check(st) = "no login"
        THEN Outcome(EphemeralMessage(Text("No Login found for today")), <<rd>>)
        ELSE IF att_logout_check(st) = "already"
        THEN Outcome(EphemeralMessage(Text("Logout already recorded")), <<rd>>)
        ELSE IF ~env.append
        THEN Outcome(EphemeralMessage(Text("Failed to record logout")),
                     <<rd, Effect("append", "Attendance", FALSE, row)>>)
        ELSE [Outcome(EphemeralMessage(Text("Logout recorded")),
                      <<rd, Effect("append", "Attendance", TRUE, row)>>
                          \o broadcast_attendance(user_id, channel_id, env.chat))
                EXCEPT !.sheets = AppendRow(sheets, "Attendance", row)]

\* the modal submit without the test of the user the modal was opened for
att_logout_progress_unchecked(user, channel_id, expected_uid, progress, env) ==
    IF ~env.read
    THEN Unhandled(<<Effect("read", "Attendance", FALSE, "")>>)
    ELSE att_logout_progress_act(user, channel_id, progress, env,
                                 get_today_status(DisplayName(user), user.id))

\* the att_logout_progress modal submit (lines 2001-2024); progress is
\* comps[0]["components"][0]["value"], "" when missing; the status read at
\* line 2013 is in no try block
att_logout_progress_submit(user, channel_id, expected_uid, progress, env) ==
    IF expected_uid # "" /\ expected_uid # user.id
    THEN Outcome(EphemeralMessage(Text("This modal is not for you")), <<>>)
    ELSE IF ~env.read
    THEN Unhandled(<<Effect("read", "Attendance", FALSE, "")>>)
    ELSE att_logout_progress_act(user, channel_id, progress, env,
                                 get_today_status(DisplayName(user), user.id))

(***************************************************************************)
(* Request cards: the chat messages that carry a request to its reviewers, *)
(* as the handlers format them and as the review handlers parse them back. *)
(***************************************************************************)
Digits == <<"0","1","2","3","4","5","6","7","8","9">>

IsDigit(c) == \E i \in 1..10 : Digits[i] = c

DigitVal(c) == (CHOOSE i \in 1..10 : Digits[i] = c) - 1

RECURSIVE DigitsVal(_)
DigitsVal(s) ==
    IF s = <<>> THEN 0
    ELSE 10 * DigitsVal(SubSeq(s, 1, Len(s) - 1)) + DigitVal(s[Len(s)])

\* str(n) of a natural number
RECURSIVE IntToStr(_)
IntToStr(n) ==
    IF n < 10 THEN <<Digits[n + 1]>>
    ELSE IntToStr(n \div 10) \o <<Digits[(n % 10) + 1]>>

\* _to_int (lines 89-93): int(float(str(x))) of a decimal numeral with an
\* optional sign and fraction, the default for anything else
to_int(x, default) ==
    LET s    == Strip(x)
        neg  == s # <<>> /\ s[1] = "-"
        body == IF neg THEN Tail(s) ELSE s
        dot  == Find(<<".">>, body)
        ip   == IF dot = 0 THEN body ELSE SubSeq(body, 1, dot - 1)
        fp   == IF dot = 0 THEN <<>> ELSE SubSeq(body, dot + 1, Len(body))
        ok   == /\ ip \o fp # <<>>
                /\ \A i \in 1..Len(ip) : IsDigit(ip[i])
                /\ \A i \in 1..Len(fp) : IsDigit(fp[i])
    IN  IF ~ok THEN default
        ELSE IF neg THEN 0 - DigitsVal(ip) ELSE DigitsVal(ip)

\* get_ist_timestamp() (lines 314-315) as text: the day stands for the
\* whole "%Y-%m-%d %H:%M:%S" string
TimestampText(day) == <<"T", Digits[day + 1]>>

\* the literal pieces of the card templates (f-strings) and the markers and
\* labels of the card parsers, by name
Literal(k) ==
    CASE k = "LEAVE_HEAD" ->
            <<"<inbox>"," ","*","*","L","e","a","v","e"," ","R","e","q","u",
              "e","s","t"," ","f","r","o","m"," ">>
      [] k = "BOLD_END_NL" ->
            <<"*","*","NL">>
      [] k = "LEAVE_FROM_LINE" ->
            <<"<cal>"," ","*","*","F","r","o","m",":","*","*"," ">>
      [] k = "LEAVE_TO_LINE" ->
            <<"<cal>"," ","*","*","T","o",":","*","*"," ">>
      [] k = "LEAVE_DAYS_LINE" ->
            <<"<cal>"," ","*","*","D","a","y","s",":","*","*"," ">>
      [] k = "REASON_LINE" ->
            <<"<speech>"," ","*","*","R","e","a","s","o","n",":","*","*"," ">>
      [] k = "LEAVE_TAIL" ->
            <<"NL","NL","P","l","e","a","s","e"," ","r","e","v","i","e","w",
              " ","a","n","d"," ","r","e","s","p","o","n","d"," ","a","c","c",
              "o","r","d","i","n","g","l","y",".">>
      [] k = "NOT_PROVIDED" ->
            <<"(","n","o","t"," ","p","r","o","v","i","d","e","d",")">>
      [] k = "WFH_HEAD" ->
            <<"<house>"," ","*","*","W","F","H"," ","R","e","q","u","e","s",
              "t"," ","f","r","o","m"," ">>
      [] k = "WFH_DATE_LINE" ->
            <<"<date>"," ","*","*","D","a","t","e",":","*","*"," ">>
      [] k = "LEAVE_MARKER_1" ->
            <<"*","*","L","e","a","v","e"," ","R","e","q","u","e","s","t"," ",
              "f","r","o","m"," ">>
      [] k = "LEAVE_MARKER_2" ->
            <<"L","e","a","v","e"," ","R","e","q","u","e","s","t"," ","f","r",
              "o","m"," ">>
      [] k = "LEAVE_MARKER_3" ->
            <<"<inbox>"," ","*","*","L","e","a","v","e"," ","R","e","q","u",
              "e","s","t"," ","f","r","o","m"," ">>
      [] k = "WFH_MARKER_1" ->
            <<"*","*","W","F","H"," ","R","e","q","u","e","s","t"," ","f","r",
              "o","m"," ">>
      [] k = "WFH_MARKER_2" ->
            <<"W","F","H"," ","R","e","q","u","e","s","t"," ","f","r","o","m",
              " ">>
      [] k = "WFH_MARKER_3" ->
            <<"<house>"," ","*","*","W","F","H"," ","R","e","q","u","e","s",
              "t"," ","f","r","o","m"," ">>
      [] k = "LBL_FROM" ->
            <<"*","*","F","r","o","m",":","*","*"," ">>
      [] k = "LBL_TO" ->
            <<"*","*","T","o",":","*","*"," ">>
      [] k = "LBL_REASON" ->
            <<"*","*","R","e","a","s","o","n",":","*","*"," ">>
      [] k = "LBL_DAYS" ->
            <<"*","*","D","a","y","s",":","*","*"," ">>
      [] k = "LBL_DATE" ->
            <<"*","*","D","a","t","e",":","*","*"," ">>
      [] k = "LBL_DATE_PLAIN" ->
            <<"D","a","t","e",":">>
      [] k = "LBL_REASON_PLAIN" ->
            <<"R","e","a","s","o","n",":">>
      [] k = "STATUS_HEAD" ->
            <<"NL","NL","*","*","S","t","a","t","u","s",":","*","*"," ">>
      [] k = "STATUS_BY" ->
            <<" ","b","y"," ","*","*">>
      [] k = "STATUS_AT" ->
            <<"*","*"," ","a","t"," ","*","*">>
      [] k = "STATUS_IST" ->
            <<" ","I","S","T","*","*">>
      [] k = "CONTENT_HEAD" ->
            <<"<memo>"," ","*","*","C","o","n","t","e","n","t"," ","R","e",
              "q","u","e","s","t"," ","f","r","o","m"," ">>
      [] k = "CONTENT_TOPIC_LINE" ->
            <<"<pin>"," ","*","*","T","o","p","i","c",":","*","*"," ">>
      [] k = "FILE_LINE" ->
            <<"<clip>"," ","*","*","F","i","l","e",":","*","*"," ">>
      [] k = "REVIEW_TAIL" ->
            <<"NL","NL","P","l","e","a","s","e"," ","r","e","v","i","e","w",
              " ","a","n","d"," ","r","e","s","p","o","n","d",".">>
      [] k = "ASSET_HEAD" ->
            <<"<tube>"," ","*","*","A","s","s","e","t"," ","R","e","v","i",
              "e","w"," ","R","e","q","u","e","s","t"," ","f","r","o","m",
              " ">>
      [] k = "ASSET_NAME_LINE" ->
            <<"<tag>"," ","*","*","N","a","m","e",":","*","*"," ">>
      [] k = "CONTENT_MARKER_1" ->
            <<"*","*","C","o","n","t","e","n","t"," ","R","e","q","u","e","s",
              "t"," ","f","r","o","m"," ">>
      [] k = "CONTENT_MARKER_2" ->
            <<"C","o","n","t","e","n","t"," ","R","e","q","u","e","s","t"," ",
              "f","r","o","m"," ">>
      [] k = "CONTENT_MARKER_3" ->
            <<"<memo>"," ","*","*","C","o","n","t","e","n","t"," ","R","e",
              "q","u","e","s","t"," ","f","r","o","m"," ">>
      [] k = "ASSET_MARKER_1" ->
            <<"*","*","A","s","s","e","t"," ","R","e","v","i","e","w"," ","R",
              "e","q","u","e","s","t"," ","f","r","o","m"," ">>
      [] k = "ASSET_MARKER_2" ->
            <<"A","s","s","e","t"," ","R","e","v","i","e","w"," ","R","e","q",
              "u","e","s","t"," ","f","r","o","m"," ">>
      [] k = "ASSET_MARKER_3" ->
            <<"<tube>"," ","*","*","A","s","s","e","t"," ","R","e","v","i",
              "e","w"," ","R","e","q","u","e","s","t"," ","f","r","o","m",
              " ">>
      [] k = "LBL_TOPIC" ->
            <<"*","*","T","o","p","i","c",":","*","*"," ">>
      [] k = "LBL_TOPIC_PLAIN" ->
            <<"T","o","p","i","c",":">>
      [] k = "LBL_NAME" ->
            <<"*","*","N","a","m","e",":","*","*"," ">>
      [] k = "LBL_NAME_PLAIN" ->
            <<"N","a","m","e",":">>
      [] k = "LBL_FILE" ->
            <<"*","*","F","i","l","e",":","*","*"," ">>
      [] k = "LBL_FILE_PLAIN" ->
            <<"F","i","l","e",":">>
      [] k = "PICKED_FROM_HEAD" ->
            <<"<date>"," ","F","r","o","m",":"," ","*","*">>
      [] k = "PICKED_FROM_TAIL" ->
            <<"*","*","NL","N","o","w"," ","p","i","c","k"," ","t","h","e"," ",
              "*","*","e","n","d","*","*"," ","d","a","t","e",":">>
      [] k = "COMMENTS_NOTE" ->
            <<"NL","<memo>"," ","*","*","C","o","m","m","e","n","t","s",":",
              "*","*"," ">>

\* reason or '(not provided)'
ReasonOrDefault(reason) == IF reason # <<>> THEN reason ELSE Literal("NOT_PROVIDED")

\* the leave card (lines 1558-1565 and 2290-2297); days is an int
LeaveCardText(name, from_date, to_date, days, reason) ==
    Literal("LEAVE_HEAD") \o name \o Literal("BOLD_END_NL")
        \o Literal("LEAVE_FROM_LINE") \o from_date \o <<NL>>
        \o Literal("LEAVE_TO_LINE") \o to_date \o <<NL>>
        \o Literal("LEAVE_DAYS_LINE") \o IntToStr(days) \o <<NL>>
        \o Literal("REASON_LINE") \o ReasonOrDefault(reason)
        \o Literal("LEAVE_TAIL")

\* the WFH card (lines 1626-1631)
WfhCardText(name, day, reason) ==
    Literal("WFH_HEAD") \o name \o Literal("BOLD_END_NL")
        \o Literal("WFH_DATE_LINE") \o day \o <<NL>>
        \o Literal("REASON_LINE") \o ReasonOrDefault(reason)
        \o Literal("LEAVE_TAIL")

\* the content request card (lines 1265-1270); the file is [filename](url)
FileLink(file) == <<"[">> \o file.filename \o <<"]", "(">> \o file.url \o <<")">>

ContentCardText(requester, topic, file) ==
    Literal("CONTENT_HEAD") \o requester \o Literal("BOLD_END_NL")
        \o Literal("CONTENT_TOPIC_LINE") \o topic \o <<NL>>
        \o Literal("FILE_LINE") \o FileLink(file)
        \o Literal("REVIEW_TAIL")

\* the asset review card (lines 1412-1417)
AssetCardText(requester, asset_name, file) ==
    Literal("ASSET_HEAD") \o requester \o Literal("BOLD_END_NL")
        \o Literal("ASSET_NAME_LINE") \o asset_name \o <<NL>>
        \o Literal("FILE_LINE") \o FileLink(file)
        \o Literal("REVIEW_TAIL")

\* the line appended to a decided card:
\* "\n\n**Status:** {decision} by **{reviewer}** at **{ts} IST**"
DecisionText(decision) ==
    IF decision = "Approved" THEN <<"A","p","p","r","o","v","e","d">>
    ELSE <<"R","e","j","e","c","t","e","d">>

StatusLine(decision, reviewer) ==
    Literal("STATUS_HEAD") \o DecisionText(decision) \o Literal("STATUS_BY") \o reviewer
        \o Literal("STATUS_AT") \o TimestampText(today) \o Literal("STATUS_IST")

\* grab_between (lines 1753-1757, 1060-1064, 2050-2054)
grab_between(prefix, text) ==
    IF Contains(prefix, text)
    THEN Strip(FirstLine(AfterFirst(prefix, text)))
    ELSE <<>>

\* the requester of a card: the first line, cut after the first marker it
\* contains, stripped of "*" and " " and then of whitespace
RequesterOf(content, markers) ==
    LET first == Strip(FirstLine(content))
        hit   == {i \in 1..Len(markers) : Contains(markers[i], first)}
        cut   == IF hit = {} THEN first
                 ELSE AfterFirst(markers[CHOOSE i \in hit : \A j \in hit : i <= j],
                                 first)
    IN  Strip(StripChars(cut, {"*", " "}))

\* a or b, for strings
OrElse(a, b) == IF a # <<>> THEN a ELSE b

\* the parse of a leave card by the review handlers (lines 1767-1779 and
\* 2056-2068)
parse_leave_card(content) ==
    [name   |-> RequesterOf(content, <<Literal("LEAVE_MARKER_1"),
                                       Literal("LEAVE_MARKER_2"),
                                       Literal("LEAVE_MARKER_3")>>),
     from   |-> grab_between(Literal("LBL_FROM"), content),
     to     |-> grab_between(Literal("LBL_TO"), content),
     reason |-> grab_between(Literal("LBL_REASON"), content),
     days   |-> to_int(OrElse(grab_between(Literal("LBL_DAYS"), content), <<"0">>), 0)]

\* parse_wfh_card (lines 1066-1080)
parse_wfh_card(content) ==
    [name   |-> RequesterOf(content, <<Literal("WFH_MARKER_1"),
                                       Literal("WFH_MARKER_2"),
                                       Literal("WFH_MARKER_3")>>),
     date   |-> OrElse(grab_between(Literal("LBL_DATE"), content),
                       grab_between(Literal("LBL_DATE_PLAIN"), content)),
     reason |-> OrElse(grab_between(Literal("LBL_REASON"), content),
                       grab_between(Literal("LBL_REASON_PLAIN"), content))]

\* a posted message: the channel, what it is, its text, whether its buttons
\* are disabled; req is history: the row of the request sheet that the
\* card was posted for, 0 when there is none
Message(channel, kind, content) ==
    [channel |-> channel, kind |-> kind, content |-> content, disabled |-> FALSE,
     req |-> 0]

\* the cell get_ist_timestamp() writes
IstTimestamp == [kind |-> "str", fmt |-> "%Y-%m-%d %H:%M:%S", day |-> today]

(***************************************************************************)
(* The other application commands (lines 1244-1739).  opts holds the       *)
(* option values of the payload, <<>> for an option that is absent.        *)
(***************************************************************************)
\* _get_opt (lines 105-114): str(v).strip()
get_opt(opts, name) == Strip(opts[name])

\* _to_number (lines 116-120): float(x), 0.0 when it does not parse.  An
\* amount is kept in hundredths, which is exact for up to two decimals.
to_number(x) ==
    LET s    == Strip(x)
        neg  == s # <<>> /\ s[1] = "-"
        body == IF neg THEN Tail(s) ELSE s
        dot  == Find(<<".">>, body)
        ip   == IF dot = 0 THEN body ELSE SubSeq(body, 1, dot - 1)
        fp   == IF dot = 0 THEN <<>> ELSE SubSeq(body, dot + 1, Len(body))
        ok   == /\ ip \o fp # <<>>
                /\ \A i \in 1..Len(ip) : IsDigit(ip[i])
                /\ \A i \in 1..Len(fp) : IsDigit(fp[i])
        frac == DigitsVal(SubSeq(fp \o <<"0", "0">>, 1, 2))
        val  == 100 * DigitsVal(ip) + frac
    IN  IF ~ok THEN 0 ELSE IF neg THEN 0 - val ELSE val

\* a chat API post of a card with Approve / Reject buttons
PostCard(out, channel, kind, content, req) ==
    [out EXCEPT !.messages =
        Append(messages, [Message(channel, kind, content) EXCEPT !.req = req])]

\* contentrequest (lines 1244-1287) and assetreview (lines 1391-1434):
\* opts.text is the topic / asset name, opts.file the attachment or NoFile
NoFile == [filename |-> <<>>, url |-> <<>>]

review_request_command(cmd, user, channel_id, opts, env) ==
    LET text      == Strip(opts.text)
        requester == DisplayName(user)
        target    == IF cmd = "contentrequest" THEN cfg.CONTENT_REQUESTS_CHANNEL_ID
                     ELSE cfg.ASSETS_REVIEWS_CHANNEL_ID
        kind      == IF cmd = "contentrequest" THEN "content" ELSE "asset"
        content   == IF cmd = "contentrequest"
                     THEN ContentCardText(requester, text, opts.file)
                     ELSE AssetCardText(requester, text, opts.file)
        post      == Effect("post", target, env.chat, kind)
    IN  IF ~channel_allowed(cmd, channel_id)
        THEN Outcome(deny_wrong_channel(cmd, channel_id), <<>>)
        ELSE IF text = <<>> \/ opts.file = NoFile
        THEN Outcome(discord_response_message(Text("Provide text and attach a file"), TRUE), <<>>)
        ELSE IF ~(cfg.BOT_TOKEN # "" /\ target # "")
        THEN Outcome(discord_response_message(Text("Server not configured"), TRUE), <<>>)
        ELSE IF ~env.chat
        THEN Outcome(discord_response_message(Text("Could not post"), TRUE), <<post>>)
        ELSE PostCard(Outcome(discord_response_message(Text("Sent for review"), TRUE), <<post>>),
                      target, kind, content, 0)

\* a finance command that appends one row (recordinvoice 1288-1302,
\* clearinvoice 1305-1318, recordtax 1374-1388): the sheet, whether a
\* required option is missing, and the row
FinanceSheet(cmd) ==
    CASE cmd = "recordinvoice" -> "Invoices"
      [] cmd = "clearinvoice"  -> "Invoice Clears"
      [] cmd = "recordtax"     -> "Taxes"

\* a test of the required options that finds none missing
FinanceNoneMissing(cmd, opts) == FALSE

\* `if not (a and b and c)` over the stripped required options (lines
\* 1296, 1312, 1382)
FinanceMissing(cmd, opts) ==
    CASE cmd = "recordinvoice" ->
            ~(get_opt(opts, "companyname") # <<>> /\ get_opt(opts, "invoicenumber") # <<>>
              /\ get_opt(opts, "invoicevalue") # <<>>)
      [] cmd = "clearinvoice" ->
            ~(get_opt(opts, "invoicenumber") # <<>> /\ get_opt(opts, "valuecleared") # <<>>)
      [] cmd = "recordtax" ->
            ~(get_opt(opts, "invoicenumber") # <<>> /\ get_opt(opts, "taxtype") # <<>>
              /\ get_opt(opts, "taxvalue") # <<>>)

\* append_invoice_row, append_invoice_clear_row, append_tax_row (122-156)
FinanceRow(cmd, opts) ==
    CASE cmd = "recordinvoice" ->
            [ts |-> IstTimestamp, company |-> get_opt(opts, "companyname"),
             invoice_no |-> get_opt(opts, "invoicenumber"),
             value |-> to_number(get_opt(opts, "invoicevalue")),
             comments |-> get_opt(opts, "comments")]
      [] cmd = "clearinvoice" ->
            [ts |-> IstTimestamp, invoice_no |-> get_opt(opts, "invoicenumber"),
             value |-> to_number(get_opt(opts, "valuecleared")),
             comments |-> get_opt(opts, "comments")]
      [] cmd = "recordtax" ->
            [ts |-> IstTimestamp, invoice_no |-> get_opt(opts, "invoicenumber"),
             tax_type |-> get_opt(opts, "taxtype"),
             value |-> to_number(get_opt(opts, "taxvalue")),
             comments |-> get_opt(opts, "comments")]

finance_record_command(cmd, channel_id, opts, env) ==
    LET row == FinanceRow(cmd, opts)
        ap  == Effect("append", FinanceSheet(cmd), env.append, row)
    IN  IF ~channel_allowed(cmd, channel_id)
        THEN Outcome(deny_wrong_channel(cmd, channel_id), <<>>)
        ELSE IF FinanceMissing(cmd, opts)
        THEN Outcome(discord_response_message(Text("Missing fields"), TRUE), <<>>)
        ELSE IF ~env.append
        THEN Outcome(discord_response_message(Text("Failed to record"), TRUE), <<ap>>)
        ELSE [Outcome(discord_response_message(
                          [text |-> "recorded", invoice_no |-> row.invoice_no,
                           value |-> row.value], TRUE), <<ap>>)
                EXCEPT !.sheets = AppendRow(sheets, FinanceSheet(cmd), row)]

\* the commands that only read: viewinvoice (1321-1352) reads Invoices and
\* Invoice Clears, viewfinstatus (1355-1371) those and Taxes, leavecount
\* (1438-1520) Leave Decisions; a failed read stops the handler
ReadsOf(cmd) ==
    CASE cmd = "viewinvoice"   -> <<"Invoices", "Invoice Clears">>
      [] cmd = "viewfinstatus" -> <<"Invoices", "Invoice Clears", "Taxes">>
      [] cmd = "leavecount"    -> <<"Leave Decisions">>

view_command(cmd, channel_id, env) ==
    IF ~channel_allowed(cmd, channel_id)
    THEN Outcome(deny_wrong_channel(cmd, channel_id), <<>>)
    ELSE IF ~env.read
    THEN Outcome(discord_response_message(Text("Could not load"), TRUE),
                 <<Effect("read", ReadsOf(cmd)[1], FALSE, "")>>)
    ELSE Outcome(discord_response_message(Text(cmd), TRUE),
                 [i \in 1..Len(ReadsOf(cmd)) |-> Effect("read", ReadsOf(cmd)[i], TRUE, "")])

\* send_leave_from_picker (997-1022) and send_wfh_date_picker (1024-1051):
\* a post that raises when the chat API fails
send_picker(out, kind, channel_id, chatOk) ==
    IF cfg.BOT_TOKEN = "" \/ channel_id = "" THEN out
    ELSE IF ~chatOk THEN Unhandled(<<Effect("post", channel_id, FALSE, kind)>>)
    ELSE [out EXCEPT !.effects = <<Effect("post", channel_id, TRUE, kind)>>,
                     !.messages = Append(messages, Message(channel_id, kind, <<>>))]

\* where a request card goes (lines 1578-1587): the approver channel, else
\* a DM to the approver, else the channel of the command
ApproverTarget(channel_id) ==
    IF cfg.APPROVER_CHANNEL_ID # "" THEN cfg.APPROVER_CHANNEL_ID
    ELSE IF cfg.APPROVER_USER_ID # "" THEN "dm"
    ELSE channel_id

\* append_leave_row (lines 644-654)
LeaveRequestRow(name, from_date, days, to_date, reason) ==
    [ts |-> IstTimestamp, name |-> name, from |-> from_date, days |-> days,
     to |-> to_date, reason |-> reason]

\* leaverequest (lines 1524-1594)
leaverequest_command(user, channel_id, opts, env) ==
    LET from_opt   == Strip(opts.from)
        to_opt     == Strip(opts.to)
        reason_opt == Strip(opts.reason)
        days_opt   == get_opt(opts, "days")
        name       == DisplayName(user)
        days       == to_int(days_opt, 0)
        row        == LeaveRequestRow(name, from_opt, days_opt, to_opt, reason_opt)
        ap         == Effect("append", "Leave Requests", env.append, row)
        target     == ApproverTarget(channel_id)
        post       == Effect("post", target, env.chat, "leave")
        failed     == discord_response_message(Text("Failed to record leave"), TRUE)
    IN  IF ~channel_allowed("leaverequest", channel_id)
        THEN Outcome(deny_wrong_channel("leaverequest", channel_id), <<>>)
        ELSE IF from_opt = <<>> \/ to_opt = <<>>
        THEN send_picker(Outcome(discord_response_message(
                                     Text("I posted a From date picker"), TRUE), <<>>),
                         "leave_from_picker", channel_id, env.chat)
        ELSE IF days <= 0
        THEN Outcome(discord_response_message(Text("Please provide a valid days"), TRUE), <<>>)
        ELSE IF ~env.append
        THEN Outcome(failed, <<ap>>)
        ELSE IF cfg.BOT_TOKEN = ""
        THEN [Outcome(discord_response_message(Text("Leave request submitted"), TRUE), <<ap>>)
                EXCEPT !.sheets = AppendRow(sheets, "Leave Requests", row)]
        ELSE IF ~env.chat
        THEN [Outcome(failed, <<ap, post>>)
                EXCEPT !.sheets = AppendRow(sheets, "Leave Requests", row)]
        ELSE [PostCard(Outcome(discord_response_message(Text("Leave request submitted"), TRUE),
                               <<ap, post>>),
                       target, "leave",
                       LeaveCardText(name, from_opt, to_opt, days, reason_opt),
                       Len(sheets["Leave Requests"]) + 1)
                EXCEPT !.sheets = AppendRow(sheets, "Leave Requests", row)]

\* append_wfh_row (lines 949-959)
WfhRequestRow(name, day, reason) ==
    [ts |-> IstTimestamp, name |-> name, date |-> day, reason |-> reason]

\* wfh (lines 1597-1661): the card post is in a try block of its own
wfh_command(user, channel_id, opts, env) ==
    LET day    == Strip(opts.date)
        reason == Strip(opts.reason)
        name   == DisplayName(user)
        row    == WfhRequestRow(name, day, reason)
        ap     == Effect("append", "WFH Requests", env.append, row)
        target == ApproverTarget(channel_id)
        post   == Effect("post", target, env.chat, "wfh")
        done   == discord_response_message(Text("WFH request submitted"), TRUE)
    IN  IF ~channel_allowed("wfh", channel_id)
        THEN Outcome(deny_wrong_channel("wfh", channel_id), <<>>)
        ELSE IF day = <<>>
        THEN send_picker(Outcome(discord_response_message(
                                     Text("Choose a date from the picker"), TRUE), <<>>),
                         "wfh_date_picker", channel_id, env.chat)
        ELSE IF ~env.append
        THEN Outcome(discord_response_message(Text("Failed to record WFH request"), TRUE),
                     <<ap>>)
        ELSE IF cfg.BOT_TOKEN = ""
        THEN [Outcome(done, <<ap>>) EXCEPT !.sheets = AppendRow(sheets, "WFH Requests", row)]
        ELSE IF ~env.chat
        THEN [Outcome(done, <<ap, post>>)
                EXCEPT !.sheets = AppendRow(sheets, "WFH Requests", row)]
        ELSE [PostCard(Outcome(done, <<ap, post>>), target, "wfh",
                       WfhCardText(name, day, reason), Len(sheets["WFH Requests"]) + 1)
                EXCEPT !.sheets = AppendRow(sheets, "WFH Requests", row)]

\* schedulemeet (lines 1664-1700): the command has no entry in
\* CMD_ALLOWED_CHANNELS; the event insert is a Google API write
schedulemeet_command(channel_id, opts, env) ==
    LET ins == Effect("calendar_insert", "primary", env.append, opts.title)
    IN  IF ~channel_allowed("schedulemeet", channel_id)
        THEN Outcome(deny_wrong_channel("schedulemeet", channel_id), <<>>)
        ELSE IF opts.title = <<>> \/ opts.start = <<>> \/ opts.end = <<>>
        THEN Outcome(discord_response_message(Text("Missing required fields"), TRUE), <<>>)
        ELSE IF ~env.append
        THEN Outcome(discord_response_message(Text("Failed to schedule meet"), TRUE), <<ins>>)
        ELSE Outcome(discord_response_message(Text("Google Meet Scheduled"), FALSE), <<ins>>)

LowerLetters ==
    {"a","b","c","d","e","f","g","h","i","j","k","l","m",
     "n","o","p","q","r","s","t","u","v","w","x","y","z"}

\* extract_meet_code (lines 354-367) of a bare code: xxx-xxxx-xxx, else ""
extract_meet_code(meet_link_or_code) ==
    LET s == Lower(Strip(meet_link_or_code))
    IN  IF /\ Len(s) = 12
           /\ \A i \in 1..12 : IF i \in {4, 9} THEN s[i] = "-" ELSE s[i] \in LowerLetters
        THEN s ELSE <<>>

\* auditmeet (lines 1701-1737): the body of its channel test is `pass`; the
\* audit-log query is a Google API read
auditmeet_command(channel_id, opts, env) ==
    LET code == extract_meet_code(opts.meetlink)
        q    == Effect("reports_list", "meet", env.read, code)
    IN  IF code = <<>>
        THEN Outcome(discord_response_message(Text("Please provide a valid Google Meet link"),
                                              TRUE), <<>>)
        ELSE IF ~env.read
        THEN Outcome(discord_response_message(Text("Could not audit Meet"), TRUE), <<q>>)
        ELSE Outcome(discord_response_message(Text("Meet attendance"), TRUE), <<q>>)

\* line 1739
unknown_command == Outcome(discord_response_message(Text("Unknown command."), TRUE), <<>>)

\* the fallback for unknown buttons and selects (lines 1981-1985)
unsupported_button(custom_id) ==
    Outcome(discord_response_message(
                [text |-> "Unsupported action for button id", custom_id |-> custom_id],
                TRUE), <<>>)

\* the fallback of the handler (lines 2324-2325)
unsupported_interaction ==
    Outcome(discord_response_message(Text("Unsupported interaction type."), TRUE), <<>>)

(***************************************************************************)
(* Review of leave and WFH requests: the Approve / Reject buttons of a     *)
(* card (lines 1767-1825, 1880-1927) and the rejection modals (lines       *)
(* 2035-2100, 2212-2258).                                                  *)
(***************************************************************************)
\* post_leave_status_update (813-835) and post_wfh_status_update (974-995):
\* a best-effort post to the status channel
post_status_update(kind, fallback_channel_id, chatOk) ==
    LET status_channel_id ==
            IF cfg.LEAVE_STATUS_CHANNEL_ID # "" THEN cfg.LEAVE_STATUS_CHANNEL_ID
            ELSE IF cfg.APPROVER_CHANNEL_ID # "" THEN cfg.APPROVER_CHANNEL_ID
            ELSE fallback_channel_id
    IN  IF cfg.BOT_TOKEN = "" \/ status_channel_id = "" THEN <<>>
        ELSE <<Effect("post", status_channel_id, chatOk, kind)>>

\* the messages that the successful posts among these calls created
Posted(effects) ==
    LET ok == {i \in 1..Len(effects) : effects[i].op = "post" /\ effects[i].ok}
        F[i \in 0..Len(effects)] ==
            IF i = 0 THEN <<>>
            ELSE IF i \in ok
                 THEN Append(F[i - 1], [Message(effects[i].target, effects[i].arg, <<>>)
                                           EXCEPT !.disabled = TRUE])
                 ELSE F[i - 1]
    IN  F[Len(effects)]

\* a decision went through: the row is appended, the card is edited (when
\* the edit reaches Discord) and the status posts are delivered
Recorded(out, sheet, row, msg_id, new_content, edited, status) ==
    [out EXCEPT
        !.sheets   = AppendRow(sheets, sheet, row),
        !.messages = (IF edited
                      THEN [messages EXCEPT ![msg_id] =
                               [@ EXCEPT !.content = new_content, !.disabled = TRUE]]
                      ELSE messages) \o Posted(status),
        !.decided  = Append(decided, [card |-> msg_id, sheet |-> sheet,
                                      decision |-> row.decision])]

\* append_leave_decision_row (lines 259-270)
LeaveDecisionRow(p, decision, reviewer) ==
    [ts |-> IstTimestamp, name |-> p.name, from |-> p.from, to |-> p.to,
     reason |-> p.reason, decision |-> decision, reviewer |-> reviewer,
     days |-> p.days]

\* append_wfh_decision_row (lines 961-972)
WfhDecisionRow(p, decision, reviewer, note) ==
    [ts |-> IstTimestamp, name |-> p.name, date |-> p.date, reason |-> p.reason,
     decision |-> decision, reviewer |-> reviewer, note |-> note]

\* "\n<memo> **Rejection Note:** {reject_note}" when there is a note
RejectionNote(reject_note) ==
    IF reject_note = <<>> THEN <<>>
    ELSE <<NL, "<memo>", " ", "*", "*", "R", "e", "j", "e", "c", "t", "i", "o", "n",
           " ", "N", "o", "t", "e", ":", "*", "*", " ">> \o reject_note

\* the Approve button of a leave card (lines 1767-1802): msg_id is the
\* message the button belongs to, payload.channel_id its channel
leave_approve_click(user, msg_id, env) ==
    LET content     == messages[msg_id].content
        channel_id  == messages[msg_id].channel
        reviewer    == DisplayName(user)
        p           == parse_leave_card(content)
        row         == LeaveDecisionRow(p, "Approved", reviewer)
        ap          == Effect("append", "Leave Decisions", env.append, row)
        new_content == content \o StatusLine("Approved", reviewer)
        status      == post_status_update("leave_status", channel_id, env.chat)
    IN  IF ~(p.name # <<>> /\ p.from # <<>> /\ p.to # <<>>)
        THEN Outcome(EphemeralMessage(Text("Could not parse the request details")), <<>>)
        ELSE IF ~env.append
        THEN Outcome(EphemeralMessage(Text("Failed to record decision")), <<ap>>)
        ELSE Recorded(Outcome([type |-> 7, content |-> new_content, disabled |-> TRUE],
                              <<ap>> \o status),
                      "Leave Decisions", row, msg_id, new_content, TRUE, status)

\* a click that opens the modal and also disables the buttons of its card
reject_click_disabling(prefix, msg_id) ==
    LET custom_id == <<prefix, messages[msg_id].channel, msg_id>>
    IN  [Outcome([type |-> 9, custom_id |-> custom_id], <<>>)
            EXCEPT !.modals = modals \cup {[id |-> steps, custom_id |-> custom_id]},
                   !.messages = [messages EXCEPT ![msg_id].disabled = TRUE]]

\* the Reject button of a leave or WFH card (lines 1804-1825, 1906-1927):
\* opens the modal "<prefix>::{ch_id}::{msg_id}"
reject_click(prefix, msg_id) ==
    LET custom_id == <<prefix, messages[msg_id].channel, msg_id>>
    IN  [Outcome([type |-> 9, custom_id |-> custom_id], <<>>)
            EXCEPT !.modals = modals \cup {[id |-> steps, custom_id |-> custom_id]}]

\* the Approve button of a WFH card (lines 1880-1904)
wfh_approve_click(user, msg_id, env) ==
    LET content     == messages[msg_id].content
        channel_id  == messages[msg_id].channel
        reviewer    == DisplayName(user)
        p           == parse_wfh_card(content)
        row         == WfhDecisionRow(p, "Approved", reviewer, <<>>)
        ap          == Effect("append", "WFH Decisions", env.append, row)
        new_content == content \o StatusLine("Approved", reviewer)
        status      == post_status_update("wfh_status", channel_id, env.chat)
    IN  IF ~(p.name # <<>> /\ p.date # <<>>)
        THEN Outcome(EphemeralMessage(Text("Could not parse WFH request")), <<>>)
        ELSE IF ~env.append
        THEN Outcome(EphemeralMessage(Text("Failed to record WFH decision")), <<ap>>)
        ELSE Recorded(Outcome([type |-> 7, content |-> new_content, disabled |-> TRUE],
                              <<ap>> \o status),
                      "WFH Decisions", row, msg_id, new_content, TRUE, status)

\* the rejection modals (leave: lines 2035-2100, WFH: lines 2212-2258);
\* custom_id is the modal's <<prefix, ch_id, msg_id>>, reject_note the
\* stripped value of its text input; get is the outcome of the GET of the
\* original message: "ok", a "status" other than 200, or a network error
\* (requests.get raises, outside any try block)
reject_reason_submit(kind, user, channel_id, custom_id, reject_note, get, env) ==
    LET ch_id       == IF custom_id[2] # "" THEN custom_id[2] ELSE channel_id
        msg_id      == custom_id[3]
        reviewer    == DisplayName(user)
        content     == messages[msg_id].content
        sheet       == IF kind = "leave" THEN "Leave Decisions" ELSE "WFH Decisions"
        row         == IF kind = "leave"
                       THEN LeaveDecisionRow(parse_leave_card(content), "Rejected", reviewer)
                       ELSE WfhDecisionRow(parse_wfh_card(content), "Rejected", reviewer,
                                           reject_note)
        rd          == Effect("get", ch_id, get = "ok", msg_id)
        ap          == Effect("append", sheet, env.append, row)
        new_content == content \o StatusLine("Rejected", reviewer)
                               \o RejectionNote(reject_note)
        patch       == Effect("patch", ch_id, env.chat, msg_id)
        status      == post_status_update(IF kind = "leave" THEN "leave_status"
                                          ELSE "wfh_status", ch_id, env.chat)
    IN  IF cfg.BOT_TOKEN = "" \/ ch_id = ""
        THEN Outcome(EphemeralMessage(Text("Missing context")), <<>>)
        ELSE IF get = "raise" THEN Unhandled(<<rd>>)
        ELSE IF get = "status"
        THEN Outcome(EphemeralMessage(Text("Could not load original message")), <<rd>>)
        ELSE IF ~env.append
        THEN Outcome(EphemeralMessage(Text("Failed to record decision")), <<rd, ap>>)
        ELSE Recorded(Outcome(EphemeralMessage(Text("Rejection recorded")),
                              <<rd, ap, patch>> \o status),
                      sheet, row, msg_id, new_content, env.chat, status)

(***************************************************************************)
(* Review of content requests and asset reviews: the buttons of a card     *)
(* open a comment modal (lines 1928-1974) and the modal's submit records   *)
(* the decision (lines 2103-2209).                                         *)
(***************************************************************************)
\* _md_link_parts (lines 745-747): the first match of
\* \[([^\]]+)\]\(([^)]+)\) in the line, ("", "") when there is none
md_link_parts(line) ==
    LET close(i)  == i + Find(<<"]">>, SubSeq(line, i + 1, Len(line)))
        paren(j)  == j + 1 + Find(<<")">>, SubSeq(line, j + 2, Len(line)))
        starts    == {i \in 1..Len(line) :
                         /\ line[i] = "["
                         /\ close(i) > i + 1
                         /\ close(i) < Len(line)
                         /\ line[close(i) + 1] = "("
                         /\ paren(close(i)) > close(i) + 2}
        i0        == CHOOSE i \in starts : \A j \in starts : i <= j
    IN  IF starts = {} THEN [filename |-> <<>>, url |-> <<>>]
        ELSE [filename |-> SubSeq(line, i0 + 1, close(i0) - 1),
              url      |-> SubSeq(line, close(i0) + 2, paren(close(i0)) - 1)]

\* parse_content_request_card (lines 755-767) and parse_asset_review_card
\* (lines 769-781): kind is "content" or "asset"
parse_review_card(kind, content) ==
    LET markers   == IF kind = "content"
                     THEN <<Literal("CONTENT_MARKER_1"), Literal("CONTENT_MARKER_2"),
                            Literal("CONTENT_MARKER_3")>>
                     ELSE <<Literal("ASSET_MARKER_1"), Literal("ASSET_MARKER_2"),
                            Literal("ASSET_MARKER_3")>>
        text_line == IF kind = "content"
                     THEN OrElse(grab_between(Literal("LBL_TOPIC"), content),
                                 grab_between(Literal("LBL_TOPIC_PLAIN"), content))
                     ELSE OrElse(grab_between(Literal("LBL_NAME"), content),
                                 grab_between(Literal("LBL_NAME_PLAIN"), content))
        file_line == OrElse(grab_between(Literal("LBL_FILE"), content),
                            grab_between(Literal("LBL_FILE_PLAIN"), content))
    IN  [requester |-> RequesterOf(content, markers),
         text      |-> text_line,
         filename  |-> md_link_parts(file_line).filename,
         file_url  |-> md_link_parts(file_line).url]

\* the row of append_content_decision_row_from_card (lines 783-796) and of
\* append_asset_decision_row_from_card (lines 798-811)
ReviewDecisionRow(kind, card_content, decision, reviewer, comments) ==
    LET p == parse_review_card(kind, card_content)
    IN  [ts |-> IstTimestamp, decision |-> decision, reviewer |-> reviewer,
         requester |-> p.requester, text |-> p.text, filename |-> p.filename,
         file_url |-> p.file_url, comments |-> comments]

\* the content request and asset review modals (cr_*_reason: lines
\* 2103-2155, ar_*_reason: lines 2157-2209): the card is edited first
\* (a status other than 200/201 is only logged), then the row is appended,
\* in no try block, then the content team is told through _post_to_channel
\* (lines 287-302), which catches what its post raises
review_reason_submit(kind, decision, user, custom_id, comment, get, env) ==
    LET ch_id       == custom_id[2]
        msg_id      == custom_id[3]
        reviewer    == DisplayName(user)
        content     == messages[msg_id].content
        sheet       == IF kind = "content" THEN "Content Decisions" ELSE "Asset Decisions"
        row         == ReviewDecisionRow(kind, content, decision, reviewer, comment)
        rd          == Effect("get", ch_id, get = "ok", msg_id)
        patch       == Effect("patch", ch_id, env.chat, msg_id)
        ap          == Effect("append", sheet, env.append, row)
        new_content == content \o StatusLine(decision, reviewer)
                               \o (IF comment = <<>> THEN <<>>
                                   ELSE Literal("COMMENTS_NOTE") \o comment)
        notice      == IF cfg.CONTENT_TEAM_CHANNEL_ID = "" \/ cfg.BOT_TOKEN = "" THEN <<>>
                       ELSE <<Effect("post", cfg.CONTENT_TEAM_CHANNEL_ID, env.chat,
                                     IF kind = "content" THEN "content_notice"
                                     ELSE "asset_notice")>>
    IN  IF cfg.BOT_TOKEN = "" \/ ch_id = ""
        THEN Outcome(EphemeralMessage(Text("Missing context")), <<>>)
        ELSE IF get = "raise" THEN Unhandled(<<rd>>)
        ELSE IF get = "status"
        THEN Outcome(EphemeralMessage(Text("Could not load message")), <<rd>>)
        ELSE IF ~env.append
        THEN [Unhandled(<<rd, patch, ap>>)
                EXCEPT !.messages =
                    IF env.chat
                    THEN [messages EXCEPT ![msg_id] =
                             [@ EXCEPT !.content = new_content, !.disabled = TRUE]]
                    ELSE messages]
        ELSE Recorded(Outcome(EphemeralMessage(Text("Decision recorded")),
                              <<rd, patch, ap>> \o notice),
                      sheet, row, msg_id, new_content, env.chat, notice)

(***************************************************************************)
(* The leave date pickers (lines 997-1022, 1053-1058, 1827-1876) and the   *)
(* leave_reason modal (lines 2261-2322).  The calendar of the model is     *)
(* March and April 2025: day number 1 is 2025-03-01, a Saturday.           *)
(***************************************************************************)
\* date.isoformat() of day number n
IsoDate(n) ==
    LET mo == IF n <= 31 THEN 3 ELSE 4
        d  == IF n <= 31 THEN n ELSE n - 31
    IN  <<"2","0","2","5","-","0", Digits[mo + 1], "-",
          Digits[(d \div 10) + 1], Digits[(d % 10) + 1]>>

\* datetime.strptime(s, "%Y-%m-%d").date(): the day number, 0 when it
\* raises ValueError (no such form, or no such day in the calendar)
strptime_ymd(s) ==
    LET d1   == Find(<<"-">>, s)
        rest == SubSeq(s, d1 + 1, Len(s))
        d2   == Find(<<"-">>, rest)
        y    == SubSeq(s, 1, d1 - 1)
        mo   == SubSeq(rest, 1, d2 - 1)
        da   == SubSeq(rest, d2 + 1, Len(rest))
        num(t) == t # <<>> /\ \A i \in 1..Len(t) : IsDigit(t[i])
        ok   == /\ d1 > 0 /\ d2 > 0
                /\ Len(y) = 4 /\ Len(mo) \in 1..2 /\ Len(da) \in 1..2
                /\ num(y) /\ num(mo) /\ num(da)
                /\ DigitsVal(y) = 2025
                /\ DigitsVal(mo) \in {3, 4}
                /\ DigitsVal(da) \in 1..(IF DigitsVal(mo) = 3 THEN 31 ELSE 30)
    IN  IF ~ok THEN 0
        ELSE (IF DigitsVal(mo) = 3 THEN 0 ELSE 31) + DigitsVal(da)

\* the choice of a date: label "{iso} ({%a})", value iso (lines 1003,
\* 1055-1057, 1148-1149)
DateChoice(n) ==
    [label |-> IsoDate(n) \o <<" ", "(">>
                   \o <<<<"S","a","t">>, <<"S","u","n">>, <<"M","o","n">>,
                         <<"T","u","e">>, <<"W","e","d">>, <<"T","h","u">>,
                         <<"F","r","i">>>>[((n - 1) % 7) + 1]
                   \o <<")">>,
     value |-> IsoDate(n)]

\* _date_opts starting a day early
date_opts_day_before(start, days) ==
    [i \in 1..(IF days > 25 THEN 25 ELSE days) |-> DateChoice(start + i - 2)]

\* _date_opts (lines 1053-1058)
date_opts(start, days) ==
    LET k == IF days < 0 THEN 0 ELSE IF days > 25 THEN 25 ELSE days
    IN  [i \in 1..k |-> DateChoice(start + i - 1)]

\* the leave_from_select component (lines 1827-1849): values is
\* data.values; the UpdateMessage replaces the picker message msg_id
leave_from_select(msg_id, values) ==
    LET from_date == values[1]
        from_dt   == strptime_ymd(from_date)
        content   == Literal("PICKED_FROM_HEAD") \o from_date \o Literal("PICKED_FROM_TAIL")
        custom_id == <<"leave_to_select", from_date>>
        to_opts   == date_opts(from_dt, 25)
    IN  IF values = <<>> \/ values[1] = <<>>
        THEN Outcome(EphemeralMessage(Text("No start date selected")), <<>>)
        ELSE IF from_dt = 0 THEN Unhandled(<<>>)
        ELSE [Outcome([type |-> 7, content |-> content, custom_id |-> custom_id,
                       options |-> to_opts], <<>>)
                EXCEPT !.messages =
                    [messages EXCEPT ![msg_id] =
                        [channel |-> @.channel, kind |-> "leave_to_picker",
                         content |-> content, disabled |-> FALSE, req |-> 0,
                         custom_id |-> custom_id, options |-> to_opts]]]

\* the leave_to_select component (lines 1851-1876): custom_id is
\* "leave_to_select::{from_date}"
leave_to_select(custom_id, values) ==
    LET modal_custom_id == <<"leave_reason", custom_id[2], values[1]>>
    IN  IF values = <<>> \/ values[1] = <<>>
        THEN Outcome(EphemeralMessage(Text("No end date selected")), <<>>)
        ELSE [Outcome([type |-> 9, custom_id |-> modal_custom_id], <<>>)
                EXCEPT !.modals = modals \cup
                    {[id |-> steps, custom_id |-> modal_custom_id]}]

\* the leave_reason modal submit (lines 2261-2322): custom_id is
\* "leave_reason::{from_date}::{to_date}"; reason_text and days_str are
\* the stripped values of its two text inputs
leave_reason_submit(user, channel_id, custom_id, reason_text, days_str, env) ==
    LET from_date == custom_id[2]
        to_date   == custom_id[3]
        days      == to_int(days_str, 0)
        name2     == DisplayName(user)
        row       == LeaveRequestRow(name2, from_date, days, to_date, reason_text)
        ap        == Effect("append", "Leave Requests", env.append, row)
        target    == ApproverTarget(channel_id)
        post      == Effect("post", target, env.chat, "leave")
        failed    == EphemeralMessage(Text("Failed to record leave"))
        done      == EphemeralMessage(Text("Leave requested"))
    IN  IF days <= 0
        THEN Outcome(discord_response_message(Text("Please provide a valid days"), TRUE), <<>>)
        ELSE IF ~env.append
        THEN Outcome(failed, <<ap>>)
        ELSE IF cfg.BOT_TOKEN = "" \/ target = ""
        THEN [Outcome(done, <<ap>>)
                EXCEPT !.sheets = AppendRow(sheets, "Leave Requests", row)]
        ELSE IF ~env.chat
        THEN [Outcome(failed, <<ap, post>>)
                EXCEPT !.sheets = AppendRow(sheets, "Leave Requests", row)]
        ELSE [PostCard(Outcome(done, <<ap, post>>), target, "leave",
                       LeaveCardText(name2, from_date, to_date, days, reason_text),
                       Len(sheets["Leave Requests"]) + 1)
                EXCEPT !.sheets = AppendRow(sheets, "Leave Requests", row)]

(***************************************************************************)
(* One interaction: POST / (discord_interaction, lines 1083-2325).         *)
(***************************************************************************)
\* The request of type t with headers h passed the signature gate and is
\* dispatched to the handler whose outcome is out.  last keeps the request
\* and what the handler did; before and pre are history: the spreadsheet
\* before the interaction and facts about the state before it.
Handle(kind, name, t, h, user, channel_id, out, pre) ==
    /\ sheets' = out.sheets
    /\ messages' = out.messages
    /\ modals' = out.modals
    /\ decided' = out.decided
    /\ last' = [kind     |-> kind,
                name     |-> name,
                verified |-> verify_signature(h.sig, h.ts, RawBody(t)) = "True",
                user     |-> user,
                channel  |-> channel_id,
                status   |-> out.status,
                resp     |-> out.resp,
                effects  |-> out.effects,
                before   |-> sheets,
                pre      |-> pre]
    /\ steps' = steps + 1
    /\ UNCHANGED <<cfg, today, sigIn, sigOut, cardIn, cardText, cardOut, procs>>

\* lines 1098-1099: raise HTTPException(status_code=401)
Unauthorized ==
    \E t \in 1..5 : \E h \in Headers(t) :
        /\ ~SignatureGate(h, RawBody(t))
        /\ last' = [kind     |-> "unauthorized",
                    name     |-> "",
                    verified |-> verify_signature(h.sig, h.ts, RawBody(t)) = "True",
                    hdr      |-> h,
                    user     |-> U1,
                    channel  |-> "",
                    status   |-> 401,
                    resp     |-> [type |-> 0],
                    effects  |-> <<>>,
                    before   |-> sheets,
                    pre      |-> [none |-> TRUE]]
        /\ steps' = steps + 1
        /\ UNCHANGED <<cfg, today, sheets, messages, modals,
                       sigIn, sigOut, cardIn, cardText, cardOut, procs, decided>>

\* IST midnight passes
Midnight ==
    /\ today < MaxDay
    /\ today' = today + 1
    /\ UNCHANGED <<cfg, sheets, messages, modals, last, steps,
                   sigIn, sigOut, cardIn, cardText, cardOut, procs, decided>>

\* the rows a sheet gained in the last interaction
Gained(sheet) ==
    SubSeq(sheets[sheet], Len(last.before[sheet]) + 1, Len(sheets[sheet]))

\* the last interaction left every sheet as it was
NoRowWritten == sheets = last.before

\* the sheets other than sheet are as they were and sheet kept its old rows
OnlyGrew(sheet) ==
    /\ \A s \in SheetNames \ {sheet} : sheets[s] = last.before[s]
    /\ SubSeq(sheets[sheet], 1, Len(last.before[sheet])) = last.before[sheet]

(***************************************************************************)
(* Attendance identity, as the data model states it: a row belongs to the  *)
(* user id it stores, and to a case-insensitive name when it stores none.  *)
(***************************************************************************)
RowIdentity(row) ==
    [uid  |-> row.user_id,
     name |-> IF row.user_id # "" THEN <<>> ELSE Lower(Strip(row.name))]

UserIdentity(user) ==
    [uid  |-> user.id,
     name |-> IF user.id # "" THEN <<>> ELSE Lower(DisplayName(user))]

\* the user has a row of this action dated day
HasRow(user, action, day) ==
    \E i \in 1..Len(sheets["Attendance"]) :
        /\ RowIdentity(sheets["Attendance"][i]) = UserIdentity(user)
        /\ sheets["Attendance"][i].action = action
        /\ sheets["Attendance"][i].ts.day = day

AttendancePre(user) ==
    [day    |-> today,
     login  |-> HasRow(user, "Login", today),
     logout |-> HasRow(user, "Logout", today)]

(***************************************************************************)
(* SpecAtt: attendance commands and logout modals, one at a time.          *)
(***************************************************************************)
ProgressInputs == {<<>>, <<" ">>, <<"o","k">>}

InitCommon ==
    /\ today = 1
    /\ sheets = EmptySheets
    /\ messages = <<>>
    /\ modals = {}
    /\ last = NoLast
    /\ steps = 0
    /\ sigIn = NoSig
    /\ sigOut = "none"
    /\ cardIn = NoCard
    /\ cardText = <<>>
    /\ cardOut = NoCard
    /\ procs = <<>>
    /\ decided = <<>>

InitAtt == cfg \in Configs /\ InitCommon

CmdAttendance(channels) ==
    \E h \in Headers(2) :
      /\ SignatureGate(h, RawBody(2))
      /\ \E u \in Users, ch \in channels, env \in Envs :
        Handle("command", "attendance", 2, h, u, ch,
               attendance_command(u, ch, env), AttendancePre(u))

\* Discord delivers the submit of a modal it showed; the modal is closed
SubmitAttLogoutProgress(channels) ==
    \E h \in Headers(5) :
      /\ SignatureGate(h, RawBody(5))
      /\ \E u \in Users, ch \in channels, env \in Envs,
            m \in modals, progress \in ProgressInputs :
        /\ m.custom_id[1] = "att_logout_progress"
        /\ Handle("modal", "att_logout_progress", 5, h, u, ch,
                  [att_logout_progress_submit(u, ch, m.custom_id[2], progress, env)
                      EXCEPT !.modals = @ \ {m}],
                  AttendancePre(u) @@ [expected_uid |-> m.custom_id[2],
                                       progress |-> progress])

NextAtt ==
    \/ steps < MaxAttSteps /\ CmdAttendance({"c_att", "c_other"})
    \/ steps < MaxAttSteps /\ SubmitAttLogoutProgress({"c_att", "c_other"})
    \/ Midnight

SpecAtt == InitAtt /\ [][NextAtt]_vars


\* every spreadsheet call the last interaction made succeeded
SheetCallsOk ==
    \A i \in 1..Len(last.effects) :
        last.effects[i].op \in {"read", "append"} => last.effects[i].ok

\* the last interaction is an attendance command from the attendance channel
IsAttendanceCommand ==
    /\ last.kind = "command" /\ last.name = "attendance"
    /\ last.channel # "" /\ last.channel = cfg.ATTENDANCE_CHANNEL_ID

\* the last interaction is the submit of a logout modal by the user the
\* modal was opened for
IsLogoutSubmit ==
    /\ last.kind = "modal" /\ last.name = "att_logout_progress"
    /\ last.pre.expected_uid = last.user.id

\* the last interaction appended exactly one Attendance row, of this action,
\* for its user and dated the day of the interaction, and nothing else
GainedOneRow(action) ==
    /\ OnlyGrew("Attendance")
    /\ Len(Gained("Attendance")) = 1
    /\ Gained("Attendance")[1].action = action
    /\ RowIdentity(Gained("Attendance")[1]) = UserIdentity(last.user)
    /\ Gained("Attendance")[1].ts.day = last.pre.day

C4_AtMostOnePerDay ==
    \A i, j \in 1..Len(sheets["Attendance"]) :
        (/\ i < j
         /\ RowIdentity(sheets["Attendance"][i]) = RowIdentity(sheets["Attendance"][j])
         /\ sheets["Attendance"][i].ts.day = sheets["Attendance"][j].ts.day)
            => sheets["Attendance"][i].action # sheets["Attendance"][j].action

\* a second logout modal, opened before the first was submitted, is
\* submitted after the Logout row was written and is turned away
C4_Witness ==
    /\ IsLogoutSubmit
    /\ last.status = 200
    /\ last.resp.msg = Text("Logout already recorded")
    /\ last.pre.login /\ last.pre.logout
    /\ NoRowWritten

\* C11: every interaction that passed the signature gate is answered with
\* exactly one response of the closed set Pong (1), ChannelMessage (4),
\* UpdateMessage (7), AutocompleteResult (8), Modal (9), also when a
\* spreadsheet or chat call of its handler fails: no failure escapes the
\* handler as an exception that leaves the interaction without a response.
C11_AlwaysAnswered ==
    (last.kind # "none" /\ last.verified) =>
        /\ last.status = 200
        /\ last.resp.type \in {1, 4, 7, 8, 9}

(***************************************************************************)
(* Spec: the dispatcher.  Requests of every interaction type arrive with   *)
(* any headers; application commands arrive from any channel.              *)
(***************************************************************************)
MaxSteps == 2

\* the commands with an entry in CMD_ALLOWED_CHANNELS, and all the commands
\* the dispatcher has a branch for
AllowListedCommands ==
    {"attendance", "leaverequest", "wfh", "leavecount", "contentrequest",
     "assetreview", "recordinvoice", "clearinvoice", "viewinvoice",
     "viewfinstatus", "recordtax"}

HandledCommands == AllowListedCommands \cup {"schedulemeet", "auditmeet"}

ChannelInputs == {"", "c_att", "c_leave", "c_fin", "c_team", "c_other"}

\* payload.channel_id of a command: no channel, a channel no command is
\* allowed in, and the channels the full configuration allows some command in
PayloadChannels(cmd) ==
    {"", "c_other"} \cup
    (CASE cmd = "attendance" -> {"c_att"}
       [] cmd \in {"contentrequest", "assetreview"} -> {"c_team"}
       [] cmd \in {"recordinvoice", "clearinvoice", "viewinvoice",
                   "viewfinstatus", "recordtax"} -> {"c_fin"}
       [] OTHER -> {"c_leave"})

ISO_DAY_1 == <<"2","0","2","5","-","0","3","-","0","1">>
ISO_DAY_3 == <<"2","0","2","5","-","0","3","-","0","3">>
TRIP == <<"t","r","i","p">>

FinanceOpts ==
    {[companyname |-> c, invoicenumber |-> n, invoicevalue |-> v,
      valuecleared |-> v, taxtype |-> <<"G","S","T">>, taxvalue |-> v,
      comments |-> <<>>] :
        c \in {<<"A","c","m","e">>, <<>>},
        n \in {<<>>, <<" ">>, <<"7">>, <<" ","8"," ">>},
        v \in {<<"1","2">>, <<"x">>, <<" ">>}}

ReviewOpts ==
    [text : {<<>>, TRIP}, file : {NoFile, [filename |-> <<"f">>, url |-> <<"u">>]}]

LeaveOpts ==
    [from : {<<>>, ISO_DAY_1}, to : {ISO_DAY_3}, days : {<<"3">>, <<"0">>},
     reason : {<<>>, TRIP}]

WfhOpts == [date : {<<>>, ISO_DAY_1}, reason : {<<>>, TRIP}]

MeetOpts == [title : {TRIP}, start : {ISO_DAY_1}, end : {<<>>, ISO_DAY_3}]

AuditOpts == [meetlink : {<<>>, <<"a","b","c","-","d","e","f","g","-","h","i","j">>}]

\* the outcomes of the calls a handler can make: those it cannot make
\* are fixed
EnvsOf(calls) ==
    {e \in Envs : \A c \in {"read", "append", "chat"} \ calls : e[c]}

NoPre == [day |-> today]

\* a request of type t from user u passed the gate and got this outcome
Verified(t) == {h \in Headers(t) : SignatureGate(h, RawBody(t))}

\* line 1105: PING -> PONG
Ping ==
    \E h \in Verified(1) :
        Handle("ping", "", 1, h, U1, "", Outcome([type |-> 1], <<>>), NoPre)

CmdReviewRequest ==
    \E h \in Verified(2) :
      \E cmd \in {"contentrequest", "assetreview"}, u \in Users :
        \E ch \in PayloadChannels(cmd), opts \in ReviewOpts, env \in EnvsOf({"chat"}) :
          Handle("command", cmd, 2, h, u, ch,
                 review_request_command(cmd, u, ch, opts, env), NoPre)

CmdFinanceRecord ==
    \E h \in Verified(2) :
      \E cmd \in {"recordinvoice", "clearinvoice", "recordtax"} :
        \E ch \in PayloadChannels(cmd), opts \in FinanceOpts, env \in EnvsOf({"append"}) :
          Handle("command", cmd, 2, h, U1, ch,
                 finance_record_command(cmd, ch, opts, env),
                 NoPre @@ [opts |-> opts])

CmdView ==
    \E h \in Verified(2) :
      \E cmd \in {"viewinvoice", "viewfinstatus", "leavecount"} :
        \E ch \in PayloadChannels(cmd), env \in EnvsOf({"read"}) :
          Handle("command", cmd, 2, h, U1, ch, view_command(cmd, ch, env), NoPre)

CmdLeaveRequest(channels, users, optss) ==
    \E h \in Verified(2) :
      \E u \in users, ch \in channels, opts \in optss, env \in EnvsOf({"append", "chat"}) :
        Handle("command", "leaverequest", 2, h, u, ch,
               leaverequest_command(u, ch, opts, env), NoPre @@ [opts |-> opts])

CmdWfh(channels, users, optss) ==
    \E h \in Verified(2) :
      \E u \in users, ch \in channels, opts \in optss, env \in EnvsOf({"append", "chat"}) :
        Handle("command", "wfh", 2, h, u, ch, wfh_command(u, ch, opts, env), NoPre)

CmdScheduleMeet ==
    \E h \in Verified(2) :
      \E ch \in ChannelInputs, opts \in MeetOpts, env \in EnvsOf({"append"}) :
        Handle("command", "schedulemeet", 2, h, U1, ch,
               schedulemeet_command(ch, opts, env),
               NoPre @@ [opts |-> opts, calendar_ok |-> env.append])

CmdAuditMeet ==
    \E h \in Verified(2) :
      \E ch \in PayloadChannels("auditmeet"), opts \in AuditOpts, env \in EnvsOf({"read"}) :
        Handle("command", "auditmeet", 2, h, U1, ch,
               auditmeet_command(ch, opts, env), NoPre)

CmdUnknown ==
    \E h \in Verified(2) :
      \E ch \in {"", "c_other"} :
        Handle("command", "unknown", 2, h, U1, ch, unknown_command, NoPre)

\* a component whose custom_id no branch handles
ClickUnknownButton ==
    \E h \in Verified(3) :
      \E ch \in {"c_appr", "c_other"}, custom_id \in {"", "other_button"} :
        Handle("component", "unsupported_button", 3, h, U2, ch,
               unsupported_button(custom_id), NoPre)

\* a modal submit whose custom_id no branch handles
SubmitUnknownModal ==
    \E h \in Verified(5) :
      \E ch \in {"c_appr", "c_other"} :
        Handle("modal", "unsupported", 5, h, U2, ch, unsupported_interaction, NoPre)

Init == cfg \in Configs /\ InitCommon

Next ==
    \/ steps < MaxSteps /\ Unauthorized
    \/ steps < MaxSteps /\ Ping
    \/ steps < MaxSteps /\ CmdAttendance(PayloadChannels("attendance"))
    \/ steps < MaxSteps /\ CmdReviewRequest
    \/ steps < MaxSteps /\ CmdFinanceRecord
    \/ steps < MaxSteps /\ CmdView
    \/ steps < MaxSteps /\ CmdLeaveRequest(PayloadChannels("leaverequest"), {U1}, LeaveOpts)
    \/ steps < MaxSteps /\ CmdWfh(PayloadChannels("wfh"), {U1}, WfhOpts)
    \/ steps < MaxSteps /\ CmdScheduleMeet
    \/ steps < MaxSteps /\ CmdAuditMeet
    \/ steps < MaxSteps /\ CmdUnknown
    \/ steps < MaxSteps /\ ClickUnknownButton
    \/ steps < MaxSteps /\ SubmitUnknownModal

Spec == Init /\ [][Next]_vars

\* the channel test of the allow-list, as the spec states it
ChannelIsAllowed(cmd, cid) == cid # "" /\ cid \in CMD_ALLOWED_CHANNELS(cmd)

\* the last interaction made some external call of this kind
MadeCall(ops) == \E i \in 1..Len(last.effects) : last.effects[i].op \in ops

\* C1: a request whose signature does not verify (wrong signature, missing
\* signature header or missing timestamp header) is answered with HTTP 401
\* and nothing else happens: it is not dispatched, no spreadsheet read or
\* append and no outbound chat or calendar call is made.
C1_UnverifiedRejected ==
    (last.kind # "none" /\ ~last.verified) =>
        /\ last.kind = "unauthorized"
        /\ last.status = 401
        /\ last.effects = <<>>
        /\ NoRowWritten

\* a request with a signature but no timestamp header was turned away
\* after an earlier request had written a row, and the sheets are as before
C1_Witness ==
    /\ last.kind = "unauthorized"
    /\ last.status = 401
    /\ last.hdr.ts = <<>> /\ last.hdr.sig # <<>>
    /\ sheets # EmptySheets
    /\ NoRowWritten

\* C6: an allow-listed command invoked from a channel that is empty or not
\* in its allowed set never appends to the spreadsheet, and channel_allowed
\* is true only for a non-empty channel id that is in the command's set.
C6_DeniedNeverAppends ==
    /\ (/\ last.kind = "command"
        /\ last.name \in AllowListedCommands
        /\ ~ChannelIsAllowed(last.name, last.channel))
          => (NoRowWritten /\ ~MadeCall({"append"}))
    /\ \A cmd \in HandledCommands, cid \in ChannelInputs :
          channel_allowed(cmd, cid) => ChannelIsAllowed(cmd, cid)

\* recordinvoice arrived with no channel id while no channel is configured
\* (so that the allowed set holds the empty id) and was turned away
C6_Witness ==
    /\ last.kind = "command" /\ last.name = "recordinvoice"
    /\ last.channel = "" /\ cfg.FINANCE_CHANNEL_ID = ""
    /\ last.resp.msg.text = "wrong channel"
    /\ NoRowWritten

\* C7: every command the dispatcher handles, invoked from a channel that is
\* not allowed for it, makes no external call and answers with the
\* wrong-channel message.
C7_EveryCommandGated ==
    (/\ last.kind = "command"
     /\ last.name \in HandledCommands
     /\ ~ChannelIsAllowed(last.name, last.channel))
        => (last.effects = <<>> /\ last.resp.msg.text = "wrong channel")

\* C13: notifier calls are best-effort: when the spreadsheet append of a
\* request (leave, WFH, attendance) succeeded and a follow-up notification
\* (approver card post, DM open, attendance broadcast) failed, the response
\* is the success acknowledgement that is given when the notification
\* succeeds.
C13_NotifierBestEffort ==
    (/\ last.kind = "command"
     /\ last.name \in {"leaverequest", "wfh", "attendance"}
     /\ \E e \in 1..Len(last.effects) :
           last.effects[e].op = "append" /\ last.effects[e].ok
     /\ \E e \in 1..Len(last.effects) :
           last.effects[e].op \in {"post", "dm_open"} /\ ~last.effects[e].ok)
        => /\ last.status = 200
           /\ last.resp = discord_response_message(
                  Text(CASE last.name = "leaverequest" -> "Leave request submitted"
                         [] last.name = "wfh" -> "WFH request submitted"
                         [] last.name = "attendance" -> "Recorded Login"),
                  TRUE)

(***************************************************************************)
(* SpecReview: leave and WFH requests are filed from the leave-requests    *)
(* channel and reviewed through the buttons of their cards.                *)
(***************************************************************************)
MaxReviewSteps == 4

MaxCards == 2

ReviewLeaveOpts ==
    [from : {ISO_DAY_1}, to : {ISO_DAY_3}, days : {<<"3">>}, reason : {<<>>, TRIP}]

ReviewWfhOpts == [date : {ISO_DAY_1}, reason : {<<>>, TRIP}]

\* the cards of this kind whose buttons Discord still shows enabled
OpenCards(kind) ==
    {i \in 1..Len(messages) : messages[i].kind = kind /\ ~messages[i].disabled}

CardPre(i) == [day |-> today, card |-> i, content |-> messages[i].content]

ClickLeaveApprove ==
    \E h \in Verified(3) :
      \E u \in Users, i \in OpenCards("leave"), env \in EnvsOf({"append", "chat"}) :
        Handle("component", "leave_approve", 3, h, u, messages[i].channel,
               leave_approve_click(u, i, env), CardPre(i))

ClickLeaveReject ==
    \E h \in Verified(3) :
      \E u \in Users, i \in OpenCards("leave") :
        Handle("component", "leave_reject", 3, h, u, messages[i].channel,
               reject_click("reject_reason", i), CardPre(i))

ClickWfhApprove ==
    \E h \in Verified(3) :
      \E u \in Users, i \in OpenCards("wfh"), env \in EnvsOf({"append", "chat"}) :
        Handle("component", "wfh_approve", 3, h, u, messages[i].channel,
               wfh_approve_click(u, i, env), CardPre(i))

ClickWfhReject ==
    \E h \in Verified(3) :
      \E u \in Users, i \in OpenCards("wfh") :
        Handle("component", "wfh_reject", 3, h, u, messages[i].channel,
               reject_click("wfh_reject_reason", i), CardPre(i))

\* the reviewer who was shown a rejection modal submits it
SubmitRejectReason ==
    \E h \in Verified(5) :
      \E m \in modals, note \in {<<"n","o">>}, get \in {"ok", "status", "raise"},
         env \in EnvsOf({"append", "chat"}) :
        /\ m.custom_id[1] \in {"reject_reason", "wfh_reject_reason"}
        /\ Handle("modal", m.custom_id[1], 5, h, U2, m.custom_id[2],
                  [reject_reason_submit(IF m.custom_id[1] = "reject_reason"
                                        THEN "leave" ELSE "wfh",
                                        U2, m.custom_id[2], m.custom_id, note, get, env)
                      EXCEPT !.modals = @ \ {m}],
                  CardPre(m.custom_id[3]))

InitReview == cfg = CfgFull /\ InitCommon

NextReview ==
    \/ /\ steps < MaxReviewSteps /\ Len(messages) < MaxCards
       /\ CmdLeaveRequest({"c_leave"}, {U1}, ReviewLeaveOpts)
    \/ /\ steps < MaxReviewSteps /\ Len(messages) < MaxCards
       /\ CmdWfh({"c_leave"}, {U1}, ReviewWfhOpts)
    \/ steps < MaxReviewSteps /\ ClickLeaveApprove
    \/ steps < MaxReviewSteps /\ ClickLeaveReject
    \/ steps < MaxReviewSteps /\ ClickWfhApprove
    \/ steps < MaxReviewSteps /\ ClickWfhReject
    \/ steps < MaxReviewSteps /\ SubmitRejectReason

SpecReview == InitReview /\ [][NextReview]_vars

\* C8: at most one decision row is ever appended for a request card, so a
\* request never ends with both an Approved and a Rejected row or with two
\* Approved rows.
C8_OneDecisionPerRequest ==
    \A i, j \in 1..Len(decided) :
        i < j => decided[i].card # decided[j].card

\* the last interaction clicked Approve on a leave card and its append call
\* succeeded
ApprovedLeave ==
    /\ last.kind = "component" /\ last.name = "leave_approve"
    /\ last.effects # <<>> /\ last.effects[1].ok

\* C9: clicking Approve on a leave card appends exactly one Leave Decisions
\* row, "Approved", with the name, from, to and reason of the request, the
\* clicking user as reviewer and the days shown on the card, and answers
\* with an UpdateMessage: the original card plus a status line, buttons
\* disabled.
C9_ApproveCopiesRequest ==
    ApprovedLeave =>
        LET req == last.before["Leave Requests"][messages[last.pre.card].req]
            g   == Gained("Leave Decisions")
        IN  /\ OnlyGrew("Leave Decisions")
            /\ Len(g) = 1
            /\ g[1].decision = "Approved"
            /\ g[1].name = req.name
            /\ g[1].from = req.from
            /\ g[1].to = req.to
            /\ g[1].reason = req.reason
            /\ g[1].reviewer = DisplayName(last.user)
            /\ g[1].days = to_int(grab_between(Literal("LBL_DAYS"), last.pre.content), 0)
            /\ last.resp.type = 7
            /\ last.resp.content =
                  last.pre.content \o StatusLine("Approved", DisplayName(last.user))
            /\ last.resp.disabled

\* the allowed_mentions of the JSON body of a chat call that creates or
\* edits a message.  Only broadcast_attendance's channel post (lines
\* 702-709) and _post_to_channel (lines 293-296) send the key; the other
\* bodies are {"content": ...} or {"content": ..., "components": ...}
\* (lines 734-739, 830, 990, 1020, 1049, 1282, 1429, 1576, 1642, 2088,
\* 2134, 2188, 2247, 2306), for which the chat API parses every kind of
\* mention out of the content.
allowed_mentions(e) ==
    IF e.op = "post" /\ e.arg = "attendance"
    THEN [present |-> TRUE, parse |-> {},
          roles |-> {cfg.HR_ROLE_ID} \ {""}, users |-> {last.user.id} \ {""}]
    ELSE IF e.op = "post" /\ e.arg \in {"content_notice", "asset_notice"}
    THEN [present |-> TRUE, parse |-> {}, roles |-> {}, users |-> {}]
    ELSE [present |-> FALSE, parse |-> {"roles", "users", "everyone"},
          roles |-> {}, users |-> {}]

\* C19: every message the handler posts to a channel or a DM, and every
\* card edit, carries allowed_mentions with an empty parse list.
C19_MentionsSuppressed ==
    last.kind # "none" =>
        \A i \in 1..Len(last.effects) :
            last.effects[i].op \in {"post", "patch"} =>
                /\ allowed_mentions(last.effects[i]).present
                /\ allowed_mentions(last.effects[i]).parse = {}

\* the last interaction was answered with a message
IsChannelMessage ==
    last.kind \in {"command", "component", "modal"}
        /\ last.status = 200 /\ last.resp.type = 4

C23_ScheduleMeetConfirms ==
    /\ (/\ last.kind = "command" /\ last.name = "schedulemeet"
        /\ channel_allowed("schedulemeet", last.channel)
        /\ last.pre.opts.title # <<>> /\ last.pre.opts.start # <<>>
        /\ last.pre.opts.end # <<>>
        /\ last.pre.calendar_ok) =>
            /\ Len(SelectSeq(last.effects, LAMBDA e : e.op = "calendar_insert")) = 1
            /\ last.resp = discord_response_message(Text("Google Meet Scheduled"), FALSE)
    /\ cfg = CfgFull =>
            \E ch \in ChannelInputs \cup {cfg.APPROVER_CHANNEL_ID,
                                          cfg.LEAVE_STATUS_CHANNEL_ID,
                                          cfg.CONTENT_REQUESTS_CHANNEL_ID,
                                          cfg.ASSETS_REVIEWS_CHANNEL_ID} :
                channel_allowed("schedulemeet", ch)

\* the spreadsheet appends the last interaction attempted
AppendsTried == SelectSeq(last.effects, LAMBDA e : e.op = "append")

\* C24: nothing is retried: an interaction attempts at most one
\* spreadsheet append, and only the sheet it is for can change; when the
\* append fails no row is stored and exactly one ephemeral failure message
\* is returned.
C24_NoRetry ==
    last.kind \in {"command", "component", "modal"} =>
        /\ Len(AppendsTried) <= 1
        /\ AppendsTried = <<>> => sheets = last.before
        /\ AppendsTried # <<>> =>
              \A sh \in SheetNames \ {AppendsTried[1].target} :
                  sheets[sh] = last.before[sh]
        /\ (AppendsTried # <<>> /\ ~AppendsTried[1].ok) =>
              /\ sheets = last.before
              /\ last.status = 200
              /\ last.resp.type = 4 /\ last.resp.flags = EPHEMERAL
              /\ last.resp.msg.text \in
                    {"Failed to record login", "Failed to record logout",
                     "Failed to record", "Failed to record leave",
                     "Failed to record WFH request", "Failed to record decision",
                     "Failed to record WFH decision"}

\* the options a finance command requires
RequiredOptions(cmd) ==
    CASE cmd = "recordinvoice" -> {"companyname", "invoicenumber", "invoicevalue"}
      [] cmd = "clearinvoice"  -> {"invoicenumber", "valuecleared"}
      [] cmd = "recordtax"     -> {"invoicenumber", "taxtype", "taxvalue"}

\* the last interaction was a finance record command from its channel
\* with a required option missing or blank
IsBlankFinanceRecord ==
    /\ last.kind = "command"
    /\ last.name \in {"recordinvoice", "clearinvoice", "recordtax"}
    /\ ChannelIsAllowed(last.name, last.channel)
    /\ \E o \in RequiredOptions(last.name) :
          \A i \in 1..Len(last.pre.opts[o]) : last.pre.opts[o][i] \in {" ", NL, "TAB"}

\* C25: every row appended to Invoices, Invoice Clears or Taxes has a
\* non-empty invoice number after trimming; recordinvoice, clearinvoice
\* and recordtax with a missing or blank required option append nothing
\* and return an ephemeral missing-fields message.
C25_InvoiceNumberRequired ==
    /\ \A sh \in {"Invoices", "Invoice Clears", "Taxes"} :
          \A i \in 1..Len(sheets[sh]) :
              \E j \in 1..Len(sheets[sh][i].invoice_no) :
                  sheets[sh][i].invoice_no[j] \notin {" ", NL, "TAB"}
    /\ IsBlankFinanceRecord =>
          /\ sheets = last.before
          /\ last.effects = <<>>
          /\ last.resp = [type |-> 4, flags |-> EPHEMERAL, msg |-> Text("Missing fields")]

\* after an invoice was recorded, a clearinvoice whose invoice number is a
\* blank was refused with the missing-fields message
C25_Witness ==
    /\ IsBlankFinanceRecord
    /\ last.name = "clearinvoice"
    /\ last.pre.opts.invoicenumber = <<" ">>
    /\ last.resp.msg = Text("Missing fields")
    /\ Len(sheets["Invoices"]) = 1
    /\ sheets["Invoices"][1].invoice_no = <<"8">>

\* the rows of old are the first rows of new, in place
IsPrefix(old, new) ==
    Len(old) <= Len(new) /\ SubSeq(new, 1, Len(old)) = old

\* C20: the datastore is append-only: every interaction leaves each sheet
\* with its earlier rows unchanged and in place, the old row sequence
\* being a prefix of the new one; no row is updated or deleted.
C20_AppendOnly ==
    [][\A s \in SheetNames : IsPrefix(sheets[s], sheets'[s])]_vars

\* a decision was recorded while the sheet of the requests held two rows
\* and the sheet of the decisions already held one: both sheets keep
\* their earlier rows and the decisions sheet has one more
C20_Witness ==
    /\ last.kind # "none"
    /\ \E s \in SheetNames :
          /\ last.before[s] # <<>>
          /\ Len(sheets[s]) = Len(last.before[s]) + 1
          /\ IsPrefix(last.before[s], sheets[s])
    /\ \E s \in SheetNames :
          Len(sheets[s]) >= 2 /\ sheets[s] = last.before[s]

(***************************************************************************)
(* SpecContent: content requests and asset reviews are filed from the      *)
(* content-team channel and decided through the buttons of their cards.    *)
(***************************************************************************)
MaxContentSteps == 3

\* a user whose display name is an asterisk
U3 == [id |-> "3", global_name |-> <<"*">>, username |-> <<"s","3">>]

\* the modal a button opens: custom_id + "_reason"
ReasonModal(custom_id) ==
    CASE custom_id = "cr_approve" -> "cr_approve_reason"
      [] custom_id = "cr_reject"  -> "cr_reject_reason"
      [] custom_id = "ar_approve" -> "ar_approve_reason"
      [] custom_id = "ar_reject"  -> "ar_reject_reason"

RequestReview(users, channels, optss) ==
    \E h \in Verified(2) :
      \E cmd \in {"contentrequest", "assetreview"}, u \in users :
        \E ch \in channels, opts \in optss, env \in EnvsOf({"chat"}) :
          Handle("command", cmd, 2, h, u, ch,
                 review_request_command(cmd, u, ch, opts, env), NoPre)

\* a button of a content request card (cr_*) or asset review card (ar_*)
ClickReview ==
    \E h \in Verified(3) :
      \E kind \in {"content", "asset"}, verb \in {"approve", "reject"} :
        \E i \in OpenCards(kind) :
          LET custom_id == CASE kind = "content" /\ verb = "approve" -> "cr_approve"
                             [] kind = "content" /\ verb = "reject"  -> "cr_reject"
                             [] kind = "asset"   /\ verb = "approve" -> "ar_approve"
                             [] kind = "asset"   /\ verb = "reject"  -> "ar_reject"
          IN  Handle("component", custom_id, 3, h, U2, messages[i].channel,
                     reject_click(ReasonModal(custom_id), i), CardPre(i))

\* the reviewer who was shown a comment modal submits it
SubmitReviewReason ==
    \E h \in Verified(5) :
      \E m \in modals, get \in {"ok", "status", "raise"},
         env \in EnvsOf({"append", "chat"}) :
        /\ m.custom_id[1] \in {"cr_approve_reason", "cr_reject_reason",
                                "ar_approve_reason", "ar_reject_reason"}
        /\ Handle("modal", m.custom_id[1], 5, h, U2, m.custom_id[2],
                  [review_reason_submit(
                       IF m.custom_id[1] \in {"cr_approve_reason", "cr_reject_reason"}
                       THEN "content" ELSE "asset",
                       IF m.custom_id[1] \in {"cr_approve_reason", "ar_approve_reason"}
                       THEN "Approved" ELSE "Rejected",
                       U2, m.custom_id, <<"o","k">>, get, env)
                      EXCEPT !.modals = @ \ {m}],
                  CardPre(m.custom_id[3]))

InitContent == cfg = CfgFull /\ InitCommon

NextContent ==
    \/ /\ steps < MaxContentSteps /\ Len(messages) < MaxCards
       /\ RequestReview({U1, U3}, {"c_team"},
                        [text : {TRIP}, file : {[filename |-> <<"f">>, url |-> <<"u">>]}])
    \/ steps < MaxContentSteps /\ ClickReview
    \/ steps < MaxContentSteps /\ SubmitReviewReason

SpecContent == InitContent /\ [][NextContent]_vars

\* C12: no decision row is ever appended with an empty requester name or an
\* empty date field: in every approve and reject path (leave, WFH, content,
\* asset) a card from which a required field cannot be parsed gives a
\* parse-failure response and no append.
C12_NoBlankDecisionRow ==
    /\ \A i \in 1..Len(sheets["Leave Decisions"]) :
          /\ sheets["Leave Decisions"][i].name # <<>>
          /\ sheets["Leave Decisions"][i].from # <<>>
          /\ sheets["Leave Decisions"][i].to # <<>>
    /\ \A i \in 1..Len(sheets["WFH Decisions"]) :
          /\ sheets["WFH Decisions"][i].name # <<>>
          /\ sheets["WFH Decisions"][i].date # <<>>
    /\ \A i \in 1..Len(sheets["Content Decisions"]) :
          sheets["Content Decisions"][i].requester # <<>>
    /\ \A i \in 1..Len(sheets["Asset Decisions"]) :
          sheets["Asset Decisions"][i].requester # <<>>

\* C14: in every approval flow the decision row is appended before the card
\* is edited and before anything is broadcast: a card whose buttons are
\* disabled and that shows a status has a row in its decisions sheet, and
\* an interaction whose append failed edited no card and posted nothing.
C14_RowBeforeEdit ==
    /\ \A i \in 1..Len(messages) :
          (messages[i].kind \in {"leave", "wfh", "content", "asset"}
           /\ messages[i].disabled)
              => \E d \in 1..Len(decided) : decided[d].card = i
    /\ (last.kind \in {"component", "modal"}
        /\ \E e \in 1..Len(last.effects) :
              last.effects[e].op = "append" /\ ~last.effects[e].ok)
          => \A e \in 1..Len(last.effects) :
                last.effects[e].op \notin {"patch", "post"}

(***************************************************************************)
(* SpecLeave: leave requests filed from the leave-requests channel, with   *)
(* their dates as command options or through the date pickers.             *)
(***************************************************************************)
MaxLeaveSteps == 4

\* the messages that hold a select of this kind
Pickers(kind) == {i \in 1..Len(messages) : messages[i].kind = kind}

\* a user picks the first or the last date of the start-date select (or
\* the payload carries no value)
SelectLeaveFrom ==
    \E h \in Verified(3) :
      \E i \in Pickers("leave_from_picker"),
         values \in {<<>>, <<IsoDate(today)>>, <<IsoDate(today + 13)>>} :
        Handle("component", "leave_from_select", 3, h, U1, messages[i].channel,
               leave_from_select(i, values),
               [day |-> today, card |-> i, values |-> values])

\* a user picks the first or the last date of the end-date select
SelectLeaveTo ==
    \E h \in Verified(3) :
      \E i \in Pickers("leave_to_picker") :
        \E values \in {<<>>, <<messages[i].options[1].value>>,
                        <<messages[i].options[Len(messages[i].options)].value>>} :
          Handle("component", "leave_to_select", 3, h, U1, messages[i].channel,
                 leave_to_select(messages[i].custom_id, values),
                 [day |-> today, card |-> i, values |-> values,
                  custom_id |-> messages[i].custom_id])

\* the user who was shown the leave_reason modal submits it
SubmitLeaveReason ==
    \E h \in Verified(5) :
      \E m \in modals, reason \in {<<>>, TRIP}, days_str \in {<<"2">>, <<"0">>},
         env \in EnvsOf({"append", "chat"}) :
        /\ m.custom_id[1] = "leave_reason"
        /\ Handle("modal", "leave_reason", 5, h, U1, "c_leave",
                  [leave_reason_submit(U1, "c_leave", m.custom_id, reason, days_str, env)
                      EXCEPT !.modals = @ \ {m}],
                  [day |-> today, custom_id |-> m.custom_id, days_str |-> days_str])

InitLeave == cfg = CfgFull /\ InitCommon

NextLeave ==
    \/ /\ steps < MaxLeaveSteps /\ Len(messages) < MaxCards
       /\ CmdLeaveRequest({"c_leave"}, {U1},
                          [from : {<<>>, ISO_DAY_1, ISO_DAY_3, <<"x">>},
                           to : {<<>>, ISO_DAY_1}, days : {<<"3">>}, reason : {<<>>}])
    \/ steps < MaxLeaveSteps /\ SelectLeaveFrom
    \/ steps < MaxLeaveSteps /\ SelectLeaveTo
    \/ steps < MaxLeaveSteps /\ SubmitLeaveReason

SpecLeave == InitLeave /\ [][NextLeave]_vars

\* every external call the last interaction made succeeded
AllCallsOk == \A e \in 1..Len(last.effects) : last.effects[e].ok

\* the last interaction is the submit of a leave_reason modal with days >= 1
IsLeaveReasonSubmit ==
    /\ last.kind = "modal" /\ last.name = "leave_reason"
    /\ to_int(last.pre.days_str, 0) >= 1

\* the last interaction appended exactly one Leave Requests row, with the
\* dates of the modal and the days entered, and posted one approver card
\* with enabled buttons for it
FiledFromPicker ==
    /\ OnlyGrew("Leave Requests")
    /\ Len(Gained("Leave Requests")) = 1
    /\ Gained("Leave Requests")[1].from = last.pre.custom_id[2]
    /\ Gained("Leave Requests")[1].to = last.pre.custom_id[3]
    /\ Gained("Leave Requests")[1].days = to_int(last.pre.days_str, 0)
    /\ Cardinality({e \in 1..Len(last.effects) : last.effects[e].op = "post"}) = 1
    /\ messages # <<>>
    /\ messages[Len(messages)].kind = "leave"
    /\ ~messages[Len(messages)].disabled
    /\ messages[Len(messages)].req = Len(sheets["Leave Requests"])

C16_RowsHaveOrderedDates ==
    \A i \in 1..Len(sheets["Leave Requests"]) :
        /\ strptime_ymd(sheets["Leave Requests"][i].from) # 0
        /\ strptime_ymd(sheets["Leave Requests"][i].to) # 0
        /\ strptime_ymd(sheets["Leave Requests"][i].from)
              <= strptime_ymd(sheets["Leave Requests"][i].to)

(***************************************************************************)
(* Finance aggregation (compute_fin_status, lines 188-232).  A row whose   *)
(* value cell is a string (a header row typed into the sheet) carries the  *)
(* field value_is_str; the rows the handlers append store a number.        *)
(***************************************************************************)
\* total - cleared, without the floor
outstanding_unfloored(total, cleared) == total - cleared

\* max(total - cleared, 0.0) (lines 224, 228)
outstanding_of(total, cleared) ==
    IF total - cleared > 0 THEN total - cleared ELSE 0

\* a header test that takes no row for a header
header_start_none(rows) == 0

\* 1 if rows and isinstance(rows[0][value column], str) else 0 (lines
\* 195-197)
header_start(rows) ==
    IF rows # <<>> /\ "value_is_str" \in DOMAIN rows[1] THEN 1 ELSE 0

\* one of the three accumulation loops (lines 199-220): the dict that maps
\* str(r[field]).strip() or default to the sum of _to_number(r[value])
\* over rows[start:].  A row that is too short to have a value cell (the
\* spreadsheet API drops trailing empty cells) has no field value and is
\* passed over.
accumulate(rows, start, field, default) ==
    LET F[i \in 0..Len(rows)] ==
            IF i <= start THEN <<>>
            ELSE IF "value" \notin DOMAIN rows[i] THEN F[i - 1]
            ELSE LET k    == OrElse(Strip(rows[i][field]), default)
                     prev == F[i - 1]
                 IN  [x \in DOMAIN prev \cup {k} |->
                         (IF x \in DOMAIN prev THEN prev[x] ELSE 0)
                             + (IF x = k THEN rows[i].value ELSE 0)]
    IN  F[Len(rows)]

\* sum(d.values())
RECURSIVE sum_values(_)
sum_values(d) ==
    IF DOMAIN d = {} THEN 0
    ELSE LET k == CHOOSE x \in DOMAIN d : TRUE
         IN  d[k] + sum_values([x \in DOMAIN d \ {k} |-> d[x]])

compute_fin_status ==
    LET inv    == sheets["Invoices"]
        cl     == sheets["Invoice Clears"]
        tx     == sheets["Taxes"]
        totals_by_invoice  == accumulate(inv, header_start(inv), "invoice_no", <<>>)
        cleared_by_invoice == accumulate(cl, header_start(cl), "invoice_no", <<>>)
        taxes_by_type      == accumulate(tx, header_start(tx), "tax_type",
                                         <<"U","n","s","p","e","c","i","f","i","e","d">>)
    IN  [total_invoiced    |-> sum_values(totals_by_invoice),
         total_cleared     |-> sum_values(cleared_by_invoice),
         outstanding_total |-> outstanding_of(sum_values(totals_by_invoice),
                                              sum_values(cleared_by_invoice)),
         taxes_by_type     |-> taxes_by_type,
         outstanding_by_invoice |->
             [k \in DOMAIN totals_by_invoice |->
                 outstanding_of(totals_by_invoice[k],
                                IF k \in DOMAIN cleared_by_invoice
                                THEN cleared_by_invoice[k] ELSE 0)]]

\* viewfinstatus (lines 1355-1371): fin is what compute_fin_status
\* returned; the message shows its totals and taxes
viewfinstatus_command(channel_id, fin, env) ==
    LET reads == <<"Invoices", "Invoice Clears", "Taxes">>
    IN  IF ~channel_allowed("viewfinstatus", channel_id)
        THEN Outcome(deny_wrong_channel("viewfinstatus", channel_id), <<>>)
        ELSE IF ~env.read
        THEN Outcome(discord_response_message(Text("Could not compute status"), TRUE),
                     <<Effect("read", reads[1], FALSE, "")>>)
        ELSE Outcome(discord_response_message(
                         [text |-> "Finance Status",
                          total_inv |-> fin.total_invoiced,
                          total_cl |-> fin.total_cleared,
                          outstanding |-> fin.outstanding_total,
                          taxes |-> fin.taxes_by_type], TRUE),
                     [i \in 1..3 |-> Effect("read", reads[i], TRUE, "")])

(***************************************************************************)
(* SpecFin: invoices, clearances and taxes are recorded from the finance   *)
(* channel and the finance status is computed.                             *)
(***************************************************************************)
MaxFinSteps == 4

\* the header row of a finance sheet that has one
HeaderRow ==
    [company |-> <<"C","o">>, invoice_no |-> <<"I","n","v">>,
     tax_type |-> <<"T","y","p","e">>, value |-> 0, value_is_str |-> TRUE]

\* a sheet as people have typed it: a header row, a row for invoice 7 of
\* 500, a row for invoice 7 whose value cell holds the text "12", a row
\* that ends before its value cell, and a row of 300 with a blank invoice
\* number
TypedRows ==
    <<HeaderRow,
      [company |-> <<"A">>, invoice_no |-> <<"7">>, tax_type |-> <<"G","S","T">>,
       value |-> 50000],
      [company |-> <<"A">>, invoice_no |-> <<"7">>, tax_type |-> <<"G","S","T">>,
       value |-> 1200, value_is_str |-> TRUE],
      [company |-> <<"B">>],
      [company |-> <<"B">>, invoice_no |-> <<" ">>, tax_type |-> <<>>,
       value |-> 30000]>>

RecordFinance(cmds, channels, optss) ==
    \E h \in Verified(2) :
      \E cmd \in cmds, ch \in channels, opts \in optss, env \in EnvsOf({"append"}) :
        Handle("command", cmd, 2, h, U1, ch,
               finance_record_command(cmd, ch, opts, env), NoPre)

ViewFinStatus ==
    \E h \in Verified(2) :
      \E env \in EnvsOf({"read"}) :
        Handle("command", "viewfinstatus", 2, h, U1, "c_fin",
               viewfinstatus_command("c_fin", compute_fin_status, env),
               [day |-> today, fin |-> compute_fin_status])

InitFin ==
    /\ cfg = CfgFull
    /\ today = 1
    /\ sheets \in {EmptySheets,
                    [s \in SheetNames |->
                        IF s \in {"Invoices", "Invoice Clears", "Taxes"}
                        THEN <<HeaderRow>> ELSE <<>>],
                    [s \in SheetNames |->
                        IF s \in {"Invoices", "Invoice Clears", "Taxes"}
                        THEN TypedRows ELSE <<>>]}
    /\ messages = <<>>
    /\ modals = {}
    /\ last = NoLast
    /\ steps = 0
    /\ sigIn = NoSig
    /\ sigOut = "none"
    /\ cardIn = NoCard
    /\ cardText = <<>>
    /\ cardOut = NoCard
    /\ procs = <<>>
    /\ decided = <<>>

NextFin ==
    \/ /\ steps < MaxFinSteps
       /\ RecordFinance({"recordinvoice", "clearinvoice", "recordtax"}, {"c_fin"},
                        {[companyname |-> <<"A">>, invoicenumber |-> n,
                          invoicevalue |-> <<"1","0","0","0">>, valuecleared |-> c,
                          taxtype |-> <<"G","S","T">>, taxvalue |-> <<"1","8">>,
                          comments |-> <<>>] :
                            n \in {<<"7">>, <<"8">>},
                            c \in {<<"4","0","0">>, <<"7","0","0">>}})
    \/ steps < MaxFinSteps /\ ViewFinStatus

SpecFin == InitFin /\ [][NextFin]_vars

\* the rows of a finance sheet that have a value, other than a first row
\* whose value cell holds a string
DataRows(sheet) ==
    LET rows == sheets[sheet]
        rest == IF rows # <<>> /\ "value_is_str" \in DOMAIN rows[1]
                THEN Tail(rows) ELSE rows
    IN  SelectSeq(rest, LAMBDA r : "value" \in DOMAIN r)

\* the sum of the values of the data rows of a sheet for an invoice number
RECURSIVE SumFor(_, _)
SumFor(rows, k) ==
    IF rows = <<>> THEN 0
    ELSE (IF Strip(Head(rows).invoice_no) = k THEN Head(rows).value ELSE 0)
            + SumFor(Tail(rows), k)

\* C17: for every invoice number, the outstanding amount computed by
\* compute_fin_status equals max(sum of its invoice values - sum of its
\* clearance values, 0), from a full scan of the Invoices and Invoice
\* Clears rows, and is never negative.
C17_OutstandingFloored ==
    LET fin == compute_fin_status
        invoice_nos == {Strip(DataRows("Invoices")[i].invoice_no) :
                            i \in 1..Len(DataRows("Invoices"))}
    IN  /\ DOMAIN fin.outstanding_by_invoice = invoice_nos
        /\ \A k \in invoice_nos :
              LET due == SumFor(DataRows("Invoices"), k)
                            - SumFor(DataRows("Invoice Clears"), k)
              IN  /\ fin.outstanding_by_invoice[k] = (IF due > 0 THEN due ELSE 0)
                  /\ fin.outstanding_by_invoice[k] >= 0
        /\ (last.kind = "command" /\ last.name = "viewfinstatus")
              => last.pre.fin = fin

\* the status was computed for a sheet with a header row in which invoice
\* 7 is invoiced 1000 and cleared 400 + 700, and invoice 8 is invoiced
\* 1000 with nothing cleared: their outstanding amounts are 0 and 1000
C17_Witness ==
    /\ last.kind = "command" /\ last.name = "viewfinstatus"
    /\ last.resp.msg.text = "Finance Status"
    /\ header_start(sheets["Invoices"]) = 1
    /\ SumFor(DataRows("Invoices"), <<"7">>) = 100000
    /\ SumFor(DataRows("Invoice Clears"), <<"7">>) = 110000
    /\ last.pre.fin.outstanding_by_invoice[<<"7">>] = 0

(***************************************************************************)
(* Autocomplete (lines 1108-1183) with the two listings it reads (lines    *)
(* 609-642, 852-900).  A choice is a record of its name (the label shown)  *)
(* and its value.                                                          *)
(***************************************************************************)
\* t, whatever n
slice_whole(t, n) == t

\* t[:n]
slice_to(t, n) == SubSeq(t, 1, IF Len(t) < n THEN Len(t) ELSE n)

\* the characters of the texts that are sorted, in code point order; any
\* other character is placed after them
CodeOrder ==
    <<" ", "-", "0","1","2","3","4","5","6","7","8","9",
      "A","B","C","D","E","F","G","H","I","J","K","L","M",
      "N","O","P","Q","R","S","T","U","V","W","X","Y","Z",
      "a","b","c","d","e","f","g","h","i","j","k","l","m",
      "n","o","p","q","r","s","t","u","v","w","x","y","z">>

\* a < b for two str
RECURSIVE str_less(_, _)
str_less(a, b) ==
    LET rank(c) == IF \E i \in 1..Len(CodeOrder) : CodeOrder[i] = c
                   THEN CHOOSE i \in 1..Len(CodeOrder) : CodeOrder[i] = c
                   ELSE Len(CodeOrder) + 1
    IN  IF b = <<>> THEN FALSE
        ELSE IF a = <<>> THEN TRUE
        ELSE IF rank(a[1]) # rank(b[1]) THEN rank(a[1]) < rank(b[1])
        ELSE str_less(Tail(a), Tail(b))

\* list.sort(key=...): the elements of todo, each a record of its key (a
\* number and a str) and its item, inserted into the sorted done after the
\* elements whose key is not greater (the sort is stable)
RECURSIVE list_sort(_, _)
list_sort(done, todo) ==
    IF todo = <<>> THEN [i \in 1..Len(done) |-> done[i].item]
    ELSE LET x     == Head(todo)
             less(a, b) == \/ a.num < b.num
                           \/ a.num = b.num /\ str_less(a.str, b.str)
             later == {j \in 1..Len(done) : less(x, done[j])}
             p     == IF later = {} THEN Len(done) + 1
                      ELSE CHOOSE j \in later : \A k \in later : j <= k
         IN  list_sort(SubSeq(done, 1, p - 1) \o <<x>> \o SubSeq(done, p, Len(done)),
                       Tail(todo))

\* _ts_cell_to_date_ist (lines 528-563): the serial and strptime path
\* first; the strict formats of lines 539-543, cut to the length of the
\* format string, fit no cell that the first path left; then the ISO 8601
\* path, which reads "%Y-%m-%d %H:%M" and the T forms, a trailing Z making
\* the time UTC, so that the IST date is that of five and a half hours
\* later; then the DD/MM/YYYY formats
ts_cell_to_date_ist(cell) ==
    IF sheets_serial_to_dt_ist(cell) # 0 THEN sheets_serial_to_dt_ist(cell)
    ELSE IF cell.kind # "str" THEN 0
    ELSE IF cell.fmt \in {"%Y-%m-%d %H:%M", "%Y-%m-%dT%H:%M:%S"} THEN cell.day
    ELSE IF cell.fmt = "%Y-%m-%dT%H:%M:%SZ"
    THEN cell.day + ((cell.minute + 330) \div 1440)
    ELSE IF cell.fmt \in {"%d/%m/%Y %I:%M:%S %p", "%d/%m/%Y %H:%M:%S", "%d/%m/%Y"}
    THEN cell.day
    ELSE 0

\* list_attendance_employees_current_month (lines 609-642): rows is what
\* is left of the sheet, seen the keys met, out the names kept.  The key
\* of a row is its user id, or its lowercased name when it has none.
RECURSIVE attendance_employees(_, _, _)
attendance_employees(rows, seen, out) ==
    IF rows = <<>> \/ Len(out) >= 25 THEN out
    ELSE LET r   == Head(rows)
             nm  == Strip(r.name)
             dt  == ts_cell_to_date_ist(r.ts)
             \* mstart <= dt <= mend (_month_bounds_ist, lines 838-845)
             in_month == dt # 0 /\ ((dt <= 31) <=> (today <= 31))
             key == IF r.user_id # "" THEN [uid |-> r.user_id, nm |-> <<>>]
                    ELSE [uid |-> "", nm |-> Lower(nm)]
         IN  IF ~in_month \/ nm = <<>> \/ key \in seen
             THEN attendance_employees(Tail(rows), seen, out)
             ELSE attendance_employees(Tail(rows), seen \cup {key},
                                       Append(out, [disp |-> nm, val |-> nm]))

list_attendance_employees_current_month ==
    LET out == attendance_employees(sheets["Attendance"], {}, <<>>)
    IN  list_sort(<<>>, [i \in 1..Len(out) |->
                            [num |-> 0, str |-> Lower(out[i].disp), item |-> out[i]]])

\* the invoice numbers of rows[start:] in the order a dict keeps them
RECURSIVE dict_keys(_, _)
dict_keys(rows, keys) ==
    IF rows = <<>> THEN keys
    ELSE IF "value" \notin DOMAIN Head(rows) THEN dict_keys(Tail(rows), keys)
    ELSE LET inv_no == Strip(Head(rows).invoice_no)
         IN  dict_keys(Tail(rows),
                       IF inv_no = <<>> \/ \E i \in 1..Len(keys) : keys[i] = inv_no
                       THEN keys ELSE Append(keys, inv_no))

\* list_invoices_for_autocomplete (lines 852-900)
list_invoices_for_autocomplete(query) ==
    LET inv     == sheets["Invoices"]
        cl      == sheets["Invoice Clears"]
        data    == SelectSeq(SubSeq(inv, header_start(inv) + 1, Len(inv)),
                             LAMBDA r : "value" \in DOMAIN r)
        totals  == accumulate(inv, header_start(inv), "invoice_no", <<>>)
        cleared == accumulate(cl, header_start(cl), "invoice_no", <<>>)
        keys    == dict_keys(data, <<>>)
        q       == Lower(query)
        row(inv_no) ==
            LET first == CHOOSE i \in 1..Len(data) :
                            /\ Strip(data[i].invoice_no) = inv_no
                            /\ \A j \in 1..(i - 1) : Strip(data[j].invoice_no) # inv_no
                clr   == IF inv_no \in DOMAIN cleared THEN cleared[inv_no] ELSE 0
            IN  [inv_no |-> inv_no, company |-> Strip(data[first].company),
                 total |-> totals[inv_no], cleared |-> clr,
                 out |-> outstanding_of(totals[inv_no], clr)]
        all     == [i \in 1..Len(keys) |-> row(keys[i])]
        rows    == SelectSeq(all, LAMBDA x :
                        ~(q # <<>> /\ ~Contains(q, Lower(x.inv_no))
                                   /\ ~Contains(q, Lower(x.company))))
    IN  slice_to(list_sort(<<>>, [i \in 1..Len(rows) |->
                                     [num |-> 0 - rows[i].out, str |-> rows[i].inv_no,
                                      item |-> rows[i]]]),
                 25)

\* format(v, ",.0f") of an amount in hundredths: rounded half to even,
\* the digits grouped by three
RECURSIVE group_thousands(_)
group_thousands(n) ==
    IF n < 1000 THEN IntToStr(n)
    ELSE group_thousands(n \div 1000)
            \o <<",", Digits[((n % 1000) \div 100) + 1],
                 Digits[((n % 100) \div 10) + 1], Digits[(n % 10) + 1]>>

fmt_comma0(v) ==
    LET a == IF v < 0 THEN 0 - v ELSE v
        q == a \div 100
        r == a % 100
        n == IF r > 50 \/ (r = 50 /\ q % 2 = 1) THEN q + 1 ELSE q
    IN  (IF v < 0 THEN <<"-">> ELSE <<>>) \o group_thousands(n)

\* the label of an invoice choice (line 1134)
invoice_label(x) ==
    x.inv_no \o <<" ", "<emdash>", " ">> \o x.company
        \o <<" ", "(", "O", "u", "t", ":", " ", "<rupee>">> \o fmt_comma0(x.out)
        \o <<",", " ", "C", "l", "r", ":", " ", "<rupee>">> \o fmt_comma0(x.cleared)
        \o <<")">>

AutocompleteResult(choices, effects) ==
    Outcome([type |-> 8, data |-> [choices |-> choices]], effects)

\* the branch for t == 4: focused is the name of the focused option ("" when
\* none is), value what has been typed into it, from_opt the value of the
\* option named from.  The sheet reads are in no try block.
autocomplete(cmd_name, focused, value, from_opt, channel_id, env) ==
    LET dates(start, n) ==
            [i \in 1..n |-> [name  |-> DateChoice(start + i - 1).label,
                             value |-> DateChoice(start + i - 1).value]]
    IN  IF cmd_name = "leavecount" /\ focused = "name"
        THEN IF ~env.read THEN Unhandled(<<Effect("read", "Attendance", FALSE, "")>>)
             ELSE LET q    == Lower(Strip(value))
                      hits == SelectSeq(list_attendance_employees_current_month,
                                        LAMBDA e : ~(q # <<>> /\ ~Contains(q, Lower(e.disp))))
                      kept == slice_to(hits, 25)
                  IN  AutocompleteResult(
                          [i \in 1..Len(kept) |->
                              [name |-> slice_to(kept[i].disp, 100), value |-> kept[i].val]],
                          <<Effect("read", "Attendance", TRUE, "")>>)
        ELSE IF cmd_name \in {"clearinvoice", "recordtax"} /\ focused = "invoicenumber"
        THEN IF ~env.read THEN Unhandled(<<Effect("read", "Invoices", FALSE, "")>>)
             ELSE LET rows == list_invoices_for_autocomplete(Strip(value))
                  IN  AutocompleteResult(
                          [i \in 1..Len(rows) |->
                              [name  |-> slice_to(invoice_label(rows[i]), 100),
                               value |-> rows[i].inv_no]],
                          <<Effect("read", "Invoices", TRUE, ""),
                            Effect("read", "Invoice Clears", TRUE, "")>>)
        ELSE IF cmd_name = "wfh" /\ focused = "date"
        THEN AutocompleteResult(dates(today, 14), <<>>)
        ELSE IF cmd_name = "leaverequest" /\ focused # ""
        THEN IF ~channel_allowed(cmd_name, channel_id)
             THEN AutocompleteResult(<<>>, <<>>)
             ELSE IF focused = "from"
             THEN AutocompleteResult(dates(today, 25), <<>>)
             ELSE IF focused = "to"
             THEN LET from_str == Strip(from_opt)
                      from_dt  == IF from_str # <<>> /\ strptime_ymd(from_str) # 0
                                  THEN strptime_ymd(from_str) ELSE today
                  IN  AutocompleteResult(dates(from_dt, 25), <<>>)
             ELSE AutocompleteResult(<<>>, <<>>)
        ELSE AutocompleteResult(<<>>, <<>>)

(***************************************************************************)
(* SpecAuto: autocomplete requests over sheets that hold no rows, a few    *)
(* rows, or more rows than a result may have choices, with short names and *)
(* names longer than a label may be.                                       *)
(***************************************************************************)
MaxAutoSteps == 1

\* the number of rows of a full sheet, and the length of a long name
ManyRows == 27
LongLen == 104

\* the name of entry i: "e", two digits, and the padding
EntryName(i, len) ==
    <<"e", Digits[(i \div 10) + 1], Digits[(i % 10) + 1]>>
        \o [j \in 1..(len - 3) |-> "x"]

\* n attendance rows of n - 1 people (the last row repeats the first
\* person), and n invoices with as many clearances
FilledSheets(n, len) ==
    [s \in SheetNames |->
        CASE s = "Attendance" ->
                [i \in 1..n |->
                    [ts |-> AttendanceTimeVal,
                     name |-> EntryName(IF i = n THEN 1 ELSE n - i, len),
                     action |-> "Login", user_id |-> "", progress |-> <<>>]]
          [] s = "Invoices" ->
                [i \in 1..n |->
                    [ts |-> IstTimestamp, company |-> EntryName(i, len),
                     invoice_no |-> IntToStr(100 + n - i),
                     value |-> 100000 * ((i % 3) + 1), comments |-> <<>>]]
          [] s = "Invoice Clears" ->
                [i \in 1..n |->
                    [ts |-> IstTimestamp, invoice_no |-> IntToStr(100 + i),
                     value |-> 150050, comments |-> <<>>]]
          [] OTHER -> <<>>]

\* the autocomplete payloads: the command, its focused option, what has
\* been typed into it, and the value of the option named from
AutoRequests ==
    [cmd : {"leavecount"}, focused : {"", "name"},
     value : {<<>>, <<"1">>, <<"E","0">>}, from_opt : {<<>>}]
    \cup [cmd : {"clearinvoice", "recordtax"}, focused : {"invoicenumber"},
          value : {<<>>, <<"1">>, <<"E","0">>}, from_opt : {<<>>}]
    \cup [cmd : {"wfh"}, focused : {"date"}, value : {<<>>}, from_opt : {<<>>}]
    \cup [cmd : {"leaverequest"}, focused : {"", "from", "to", "days"},
          value : {<<>>}, from_opt : {<<>>, ISO_DAY_3, <<"x">>}]
    \cup [cmd : {"attendance"}, focused : {""}, value : {<<>>}, from_opt : {<<>>}]

Autocomplete ==
    \E h \in Verified(4) :
      \E req \in AutoRequests, ch \in {"c_leave", "c_other"}, env \in EnvsOf({"read"}) :
        Handle("autocomplete", req.cmd, 4, h, U1, ch,
               autocomplete(req.cmd, req.focused, req.value, req.from_opt, ch, env),
               [day |-> today, focused |-> req.focused])

InitAuto ==
    /\ cfg = CfgFull
    /\ today \in 1..MaxDay
    /\ sheets \in {FilledSheets(n, len) : n \in {0, 3, ManyRows}, len \in {5, LongLen}}
    /\ messages = <<>>
    /\ modals = {}
    /\ last = NoLast
    /\ steps = 0
    /\ sigIn = NoSig
    /\ sigOut = "none"
    /\ cardIn = NoCard
    /\ cardText = <<>>
    /\ cardOut = NoCard
    /\ procs = <<>>
    /\ decided = <<>>

NextAuto == steps < MaxAutoSteps /\ Autocomplete

SpecAuto == InitAuto /\ [][NextAuto]_vars

IsAutocompleteResult ==
    last.kind = "autocomplete" /\ last.status = 200

\* C18: every autocomplete result the handler returns has at most 25
\* choices and every choice label has at most 100 characters, however many
\* rows the sheets hold and however long the names in them are.
C18_AutocompleteBounded ==
    IsAutocompleteResult =>
        /\ last.resp.type = 8
        /\ Len(last.resp.data.choices) <= 25
        /\ \A i \in 1..Len(last.resp.data.choices) :
              Len(last.resp.data.choices[i].name) <= 100

\* the invoice numbers of a sheet with more than 25 invoices, whose labels
\* are longer than 100 characters, were listed: 25 choices of 100
\* characters each
C18_Witness ==
    /\ IsAutocompleteResult
    /\ last.name = "clearinvoice" /\ last.pre.focused = "invoicenumber"
    /\ Len(sheets["Invoices"]) > 25
    /\ Len(sheets["Invoices"][1].company) > 100
    /\ Len(last.resp.data.choices) = 25
    /\ \A i \in 1..25 : Len(last.resp.data.choices[i].name) = 100

\* the sum of a sequence of numbers
RECURSIVE SumSeq(_)
SumSeq(ns) == IF ns = <<>> THEN 0 ELSE Head(ns) + SumSeq(Tail(ns))

\* the values of the data rows of a finance sheet
ValuesOf(rows) == [i \in 1..Len(rows) |-> rows[i].value]

\* the data rows whose invoice number is not blank
Numbered(rows) == SelectSeq(rows, LAMBDA r : Strip(r.invoice_no) # <<>>)

\* the sums of compute_fin_status are those of the data rows, and its
\* invoice numbers are theirs
FinStatusOverDataRows ==
    LET fin == compute_fin_status
    IN  /\ fin.total_invoiced = SumSeq(ValuesOf(DataRows("Invoices")))
        /\ fin.total_cleared = SumSeq(ValuesOf(DataRows("Invoice Clears")))
        /\ sum_values(fin.taxes_by_type) = SumSeq(ValuesOf(DataRows("Taxes")))
        /\ DOMAIN fin.outstanding_by_invoice =
                {Strip(DataRows("Invoices")[i].invoice_no) :
                    i \in 1..Len(DataRows("Invoices"))}

\* the invoices list_invoices_for_autocomplete returns are those of these
\* rows and their totals add up to the values of these rows
ListingOver(rows) ==
    LET listed == list_invoices_for_autocomplete(<<>>)
    IN  /\ {listed[i].inv_no : i \in 1..Len(listed)} =
                {Strip(rows[i].invoice_no) : i \in 1..Len(rows)}
        /\ SumSeq([i \in 1..Len(listed) |-> listed[i].total]) = SumSeq(ValuesOf(rows))

month_bounds_ist ==
    IF today <= 31 THEN [start |-> 1, end |-> 31] ELSE [start |-> 32, end |-> 61]

\* the loop over rows[start_idx:] (lines 1473-1500): items and total_days
\* after the rows from index i on.  The cells come back as the strings
\* the sheet shows, the days cell as the numeral of the stored number.
RECURSIVE leavecount_scan(_, _, _, _)
leavecount_scan(rows, i, target_name, acc) ==
    IF i > Len(rows) THEN acc
    ELSE LET r      == rows[i]
             nm     == Strip(r.name)
             d1     == strptime_ymd(Strip(r.from))
             d2     == strptime_ymd(Strip(r.to))
             d_from == IF d1 > d2 THEN d2 ELSE d1
             d_to   == IF d1 > d2 THEN d1 ELSE d2
             keep   == /\ nm # <<>>
                       /\ r.decision = "Approved"
                       /\ Lower(nm) = Lower(target_name)
                       /\ d1 # 0 /\ d2 # 0
                       /\ ~(d_to < month_bounds_ist.start \/ d_from > month_bounds_ist.end)
         IN  leavecount_scan(rows, i + 1, target_name,
                 IF ~keep THEN acc
                 ELSE [items |-> Append(acc.items, [from |-> d_from, to |-> d_to,
                                                     days |-> r.days]),
                       total |-> acc.total + (IF r.days > 0 THEN r.days ELSE 0)])

leavecount_command(user, channel_id, explicit_name, env) ==
    LET fallback_name == IF user.global_name # <<>> THEN user.global_name
                         ELSE IF user.username # <<>> THEN user.username
                         ELSE <<"U","n","k","n","o","w","n">>
        target_name   == Strip(OrElse(Strip(explicit_name), fallback_name))
        rows          == sheets["Leave Decisions"]
        \* the first row is taken for a header when its name cell holds
        \* "name" (or its decision cell "decision"), lines 1458-1464
        start_idx     == IF rows # <<>> /\ Contains(<<"n","a","m","e">>, Lower(rows[1].name))
                         THEN 1 ELSE 0
        found         == leavecount_scan(rows, start_idx + 1, target_name,
                                         [items |-> <<>>, total |-> 0])
        rd(ok)        == <<Effect("read", "Leave Decisions", ok, "")>>
    IN  IF ~channel_allowed("leavecount", channel_id)
        THEN Outcome(deny_wrong_channel("leavecount", channel_id), <<>>)
        ELSE IF ~env.read
        THEN Outcome(discord_response_message(Text("Could not read leave data"), TRUE),
                     rd(FALSE))
        ELSE Outcome(discord_response_message(
                         [text |-> "Approved leaves", target |-> target_name,
                          items |-> found.items,
                          total |-> IF found.items = <<>> THEN 0 ELSE found.total],
                         TRUE), rd(TRUE))

MaxCountSteps == 4

U4 == [id |-> "4", global_name |-> <<"n","a","m","e","s">>, username |-> <<"s","4">>]

\* leave requests in the current month (March) and in the next one, the
\* days declared differing from the length of the range
CountLeaveOpts ==
    {[from |-> IsoDate(1), to |-> IsoDate(3), days |-> <<"5">>, reason |-> TRIP],
     [from |-> IsoDate(32), to |-> IsoDate(33), days |-> <<"3">>, reason |-> TRIP]}

CmdLeaveCount ==
    \E h \in Verified(2) :
      \E u \in {U1, U2, U3, U4}, explicit_name \in {<<>>, <<"S","A","M">>},
         env \in EnvsOf({"read"}) :
        Handle("command", "leavecount", 2, h, u, "c_leave",
               leavecount_command(u, "c_leave", explicit_name, env),
               [day |-> today, explicit_name |-> explicit_name])

InitCount == cfg = CfgFull /\ InitCommon

NextCount ==
    \/ /\ steps < MaxCountSteps /\ Len(messages) < MaxCards
       /\ CmdLeaveRequest({"c_leave"}, {U1, U3, U4}, CountLeaveOpts)
    \/ steps < MaxCountSteps /\ ClickLeaveApprove
    \/ steps < MaxCountSteps /\ ClickLeaveReject
    \/ steps < MaxCountSteps /\ SubmitRejectReason
    \/ steps < MaxCountSteps /\ CmdLeaveCount

SpecCount == InitCount /\ [][NextCount]_vars

\* leavecount answered with a count
IsLeaveCount ==
    /\ last.kind = "command" /\ last.name = "leavecount"
    /\ last.resp.msg.text = "Approved leaves"

\* the stored days of the Approved rows of Leave Decisions for a name whose
\* range overlaps the current month, added up
RECURSIVE ApprovedDays(_, _)
ApprovedDays(rows, target) ==
    IF rows = <<>> THEN 0
    ELSE LET r  == Head(rows)
             d1 == strptime_ymd(Strip(r.from))
             d2 == strptime_ymd(Strip(r.to))
             in == /\ r.decision = "Approved"
                   /\ Lower(Strip(r.name)) = Lower(target)
                   /\ d1 # 0 /\ d2 # 0
                   /\ \E d \in month_bounds_ist.start..month_bounds_ist.end :
                         (d1 <= d /\ d <= d2) \/ (d2 <= d /\ d <= d1)
         IN  (IF in THEN r.days ELSE 0) + ApprovedDays(Tail(rows), target)

\* the days declared in the requests under a name for ranges in the current
\* month that were approved, each request decided once
RECURSIVE RequestedAndApproved(_, _)
RequestedAndApproved(ds, user) ==
    IF ds = <<>> THEN 0
    ELSE LET req == sheets["Leave Requests"][messages[Head(ds).card].req]
             d1  == strptime_ymd(req.from)
             d2  == strptime_ymd(req.to)
             in  == /\ Head(ds).decision = "Approved"
                    /\ Lower(Strip(req.name)) = Lower(user)
                    /\ d1 # 0 /\ d1 <= d2
                    /\ month_bounds_ist.start <= d1 /\ d2 <= month_bounds_ist.end
         IN  (IF in THEN to_int(req.days, 0) ELSE 0)
                + RequestedAndApproved(Tail(ds), user)

EachDecidedOnce ==
    \A i, j \in 1..Len(decided) : decided[i].card = decided[j].card => i = j

\* C28: leavecount reports, for the target name, the sum of the stored
\* days of exactly the Approved rows of Leave Decisions whose name matches
\* case-insensitively and whose range overlaps the current month; and for
\* a user counting their own leave, with each request decided once, that
\* is the sum of the days declared in their approved requests of the
\* month.
C28_LeaveCountSumsStoredDays ==
    IsLeaveCount =>
        /\ last.resp.msg.total = ApprovedDays(sheets["Leave Decisions"], last.resp.msg.target)
        /\ (last.pre.explicit_name = <<>> /\ EachDecidedOnce) =>
              last.resp.msg.total = RequestedAndApproved(decided, last.resp.msg.target)

(***************************************************************************)
(* SpecWfh: WFH requests filed with a date option or through the date      *)
(* picker.                                                                 *)
(***************************************************************************)
\* the wfh_date_select component (lines 1759-1765): values is data.values
wfh_date_select(values) ==
    IF values = <<>> \/ values[1] = <<>>
    THEN Outcome(discord_response_message(Text("No date selected"), TRUE), <<>>)
    ELSE Outcome(discord_response_message(
                     [text |-> "Selected WFH date", date |-> values[1]], TRUE), <<>>)

MaxWfhSteps == 3

\* a user picks the first or the last date of the 14 the WFH select offers
\* (or the payload carries no value)
SelectWfhDate ==
    \E h \in Verified(3) :
      \E i \in Pickers("wfh_date_picker"), u \in Users,
         values \in {<<>>, <<IsoDate(today)>>, <<IsoDate(today + 13)>>} :
        Handle("component", "wfh_date_select", 3, h, u, messages[i].channel,
               wfh_date_select(values),
               [day |-> today, card |-> i, values |-> values])

InitWfh == cfg = CfgFull /\ InitCommon

NextWfh ==
    \/ /\ steps < MaxWfhSteps /\ Len(messages) < MaxCards
       /\ CmdWfh({"c_leave"}, Users, WfhOpts)
    \/ steps < MaxWfhSteps /\ SelectWfhDate
    \/ steps < MaxWfhSteps /\ ClickWfhApprove

SpecWfh == InitWfh /\ [][NextWfh]_vars

\* a date was selected in a posted WFH date picker
IsWfhDateSelect ==
    /\ last.kind = "component" /\ last.name = "wfh_date_select"
    /\ last.pre.values # <<>>

\* the answer opens a next step of a flow: a modal, or the message
\* replaced by another select
OpensNextStep ==
    \/ last.resp.type = 9
    \/ last.resp.type = 7 /\ "options" \in DOMAIN last.resp

\* the last interaction appended exactly one WFH Requests row for the
\* selected date and posted one approver card with enabled buttons for it
WfhFiledFromPicker ==
    /\ OnlyGrew("WFH Requests")
    /\ Len(Gained("WFH Requests")) = 1
    /\ Gained("WFH Requests")[1].date = last.pre.values[1]
    /\ Cardinality({e \in 1..Len(last.effects) : last.effects[e].op = "post"}) = 1
    /\ messages[Len(messages)].kind = "wfh"
    /\ ~messages[Len(messages)].disabled
    /\ messages[Len(messages)].req = Len(sheets["WFH Requests"])

\* C29: the WFH picker flow completes.  A wfh command without a date posts
\* the date picker, and a date selected in that picker leads to one WFH
\* Requests row for the selected date and one approver card with Approve
\* and Reject buttons: the select files the request itself or opens the
\* next step of the flow, as the selects of the leave flow do.
C29_WfhPickerFlowCompletes ==
    /\ (/\ last.kind = "command" /\ last.name = "wfh"
        /\ last.status = 200 /\ last.resp.msg = Text("Choose a date from the picker"))
          => /\ NoRowWritten
             /\ last.effects = <<Effect("post", last.channel, TRUE, "wfh_date_picker")>>
    /\ IsWfhDateSelect => (WfhFiledFromPicker \/ OpensNextStep)

\* C30: a Logout row is never appended with empty progress text: the
\* logout-progress modal submit appends nothing and answers with an
\* ephemeral error when the progress field is missing or blank.
C30_LogoutNeedsProgress ==
    /\ \A i \in 1..Len(sheets["Attendance"]) :
          sheets["Attendance"][i].action = "Logout"
              => sheets["Attendance"][i].progress # <<>>
    /\ (/\ last.kind = "modal" /\ last.name = "att_logout_progress"
        /\ Strip(last.pre.progress) = <<>>)
          => /\ NoRowWritten
             /\ last.status = 200
                   => (last.resp.type = 4 /\ last.resp.flags = EPHEMERAL)
             /\ \A e \in 1..Len(last.effects) : last.effects[e].op # "append"

\* the last interaction is the submit of a logout-progress modal that was
\* opened for another user
IsForeignLogoutSubmit ==
    /\ last.kind = "modal" /\ last.name = "att_logout_progress"
    /\ last.pre.expected_uid # "" /\ last.pre.expected_uid # last.user.id

\* C31: a logout-progress modal opened for user U (U non-empty) and
\* submitted by a different user is rejected with an ephemeral message,
\* appends no Attendance row for either user and performs no spreadsheet
\* read.
C31_ForeignModalRejected ==
    IsForeignLogoutSubmit
        => /\ last.status = 200
           /\ last.resp = EphemeralMessage(Text("This modal is not for you"))
           /\ NoRowWritten
           /\ last.effects = <<>>

\* a modal opened for a user who is logged in and not logged out was
\* submitted by the other user, with progress text
C31_Witness ==
    /\ IsForeignLogoutSubmit
    /\ last.pre.progress # <<>>
    /\ \E i \in 1..Len(sheets["Attendance"]) :
          /\ sheets["Attendance"][i].action = "Login"
          /\ sheets["Attendance"][i].user_id = last.pre.expected_uid
          /\ sheets["Attendance"][i].ts.day = today
    /\ \A i \in 1..Len(sheets["Attendance"]) :
          sheets["Attendance"][i].action # "Logout"

\* the status of a user on a day as the rows of the user's own identity
\* give it: rows that store another non-empty user id are left out, and a
\* row counts by its name only when it stores no user id (or the user has
\* none)
OwnStatus(user, rows, day) ==
    LET own == {i \in 1..Len(rows) :
                   /\ rows[i].ts.day = day
                   /\ IF rows[i].user_id # "" /\ user.id # ""
                      THEN rows[i].user_id = user.id
                      ELSE Lower(Strip(rows[i].name)) = Lower(DisplayName(user))}
    IN  [has_login  |-> \E i \in own : rows[i].action = "Login",
         has_logout |-> \E i \in own : rows[i].action = "Logout"]

\* the last interaction tried to append a row of this action for its user
TriedAppend(action) ==
    \E e \in 1..Len(last.effects) :
        /\ last.effects[e].op = "append"
        /\ last.effects[e].arg.action = action
        /\ last.effects[e].arg.user_id = last.user.id

\* the status read of the last interaction succeeded
StatusWasRead == last.effects # <<>> /\ last.effects[1].ok

\* C33: attendance identity isolation.  For a user with a non-empty user
\* id, the status the handlers act on, the row they append and the answer
\* they give are those that the rows of the user's own identity determine:
\* rows written for another user with a different non-empty user id have
\* no part in them, also when both users have the same display name.
C33_IdentityIsolation ==
    /\ \A u \in Users :
          u.id # "" => get_today_status(DisplayName(u), u.id)
                          = OwnStatus(u, sheets["Attendance"], today)
    /\ (IsAttendanceCommand /\ StatusWasRead /\ last.user.id # "") =>
          LET st == OwnStatus(last.user, last.before["Attendance"], last.pre.day)
          IN  /\ ~st.has_login => TriedAppend("Login")
              /\ (st.has_login /\ ~st.has_logout) =>
                    (NoRowWritten /\ last.resp.type = 9 /\ ~TriedAppend("Login"))
              /\ (st.has_login /\ st.has_logout) =>
                    (NoRowWritten /\ last.resp.type = 4 /\ ~TriedAppend("Login"))
              /\ \A i \in 1..Len(Gained("Attendance")) :
                    RowIdentity(Gained("Attendance")[i]) = UserIdentity(last.user)
    /\ (IsLogoutSubmit /\ StatusWasRead /\ last.user.id # "") =>
          LET st == OwnStatus(last.user, last.before["Attendance"], last.pre.day)
          IN  /\ ~st.has_login =>
                    (NoRowWritten /\ last.resp.msg = Text("No Login found for today"))
              /\ (st.has_login /\ ~st.has_logout) => TriedAppend("Logout")
              /\ (st.has_login /\ st.has_logout) =>
                    (NoRowWritten /\ last.resp.msg = Text("Logout already recorded"))
              /\ \A i \in 1..Len(Gained("Attendance")) :
                    RowIdentity(Gained("Attendance")[i]) = UserIdentity(last.user)

\* a user logs in on a day on which another user with the same display
\* name (in another case) and a different user id is already logged in
C33_Witness ==
    /\ IsAttendanceCommand
    /\ GainedOneRow("Login")
    /\ \E i \in 1..Len(last.before["Attendance"]) :
          LET r == last.before["Attendance"][i]
          IN  /\ r.action = "Login" /\ r.ts.day = last.pre.day
              /\ r.user_id # "" /\ r.user_id # last.user.id
              /\ Lower(Strip(r.name)) = Lower(DisplayName(last.user))

\* viewfinstatus answered with the finance status
IsFinStatus ==
    /\ last.kind = "command" /\ last.name = "viewfinstatus"
    /\ last.resp.msg.text = "Finance Status"

\* C34: for non-negative invoice and clearance amounts, the Outstanding
\* total that viewfinstatus reports equals the sum of the per-invoice
\* outstanding amounts of outstanding_by_invoice of the same computation.
C34_OutstandingIsSumOfInvoices ==
    (/\ IsFinStatus
     /\ \A sh \in {"Invoices", "Invoice Clears"} :
           \A i \in 1..Len(DataRows(sh)) : DataRows(sh)[i].value >= 0)
        => last.resp.msg.outstanding = sum_values(last.pre.fin.outstanding_by_invoice)

(***************************************************************************)
(* viewinvoice (lines 1321-1352) in full, and SpecLedger: invoices and     *)
(* clearances are recorded next to rows typed into the sheet, and listed.  *)
(***************************************************************************)
\* the accumulation loops of viewinvoice (lines 1334-1342): the keys are
\* str(r[field]) as stored, not stripped
accumulate_unstripped(rows, start, field) ==
    LET F[i \in 0..Len(rows)] ==
            IF i <= start THEN <<>>
            ELSE IF "value" \notin DOMAIN rows[i] THEN F[i - 1]
            ELSE LET k    == rows[i][field]
                     prev == F[i - 1]
                 IN  [x \in DOMAIN prev \cup {k} |->
                         (IF x \in DOMAIN prev THEN prev[x] ELSE 0)
                             + (IF x = k THEN rows[i].value ELSE 0)]
    IN  F[Len(rows)]

viewinvoice_command(channel_id, env) ==
    LET inv     == sheets["Invoices"]
        cl      == sheets["Invoice Clears"]
        totals  == accumulate_unstripped(inv, header_start(inv), "invoice_no")
        cleared == accumulate_unstripped(cl, header_start(cl), "invoice_no")
        rows    == SelectSeq(SubSeq(inv, header_start(inv) + 1, Len(inv)),
                             LAMBDA r : "value" \in DOMAIN r)
        line(r) == [inv_no |-> r.invoice_no, company |-> r.company, val |-> r.value,
                    out |-> outstanding_of(totals[r.invoice_no],
                                           IF r.invoice_no \in DOMAIN cleared
                                           THEN cleared[r.invoice_no] ELSE 0)]
    IN  IF ~channel_allowed("viewinvoice", channel_id)
        THEN Outcome(deny_wrong_channel("viewinvoice", channel_id), <<>>)
        ELSE IF ~env.read
        THEN Outcome(discord_response_message(Text("Could not load invoices"), TRUE),
                     <<Effect("read", "Invoices", FALSE, "")>>)
        ELSE Outcome(discord_response_message(
                         [text  |-> "Invoices",
                          lines |-> [i \in 1..(IF Len(rows) > 10 THEN 10 ELSE Len(rows))
                                        |-> line(rows[i])],
                          more  |-> IF Len(rows) > 10 THEN Len(rows) - 10 ELSE 0], TRUE),
                     <<Effect("read", "Invoices", TRUE, ""),
                       Effect("read", "Invoice Clears", TRUE, "")>>)

MaxLedgerSteps == 3

\* an Invoices sheet with two rows typed by hand: invoice "A7 " (a
\* trailing space) of 500 and a row of 300 with an empty invoice number
LedgerRows ==
    <<[company |-> <<"A">>, invoice_no |-> <<"A","7"," ">>, value |-> 50000],
      [company |-> <<"B">>, invoice_no |-> <<>>, value |-> 30000]>>

ViewInvoice ==
    \E h \in Verified(2) :
      \E env \in EnvsOf({"read"}) :
        Handle("command", "viewinvoice", 2, h, U1, "c_fin",
               viewinvoice_command("c_fin", env), [day |-> today])

InitLedger ==
    /\ cfg = CfgFull
    /\ today = 1
    /\ sheets \in {EmptySheets, [EmptySheets EXCEPT !["Invoices"] = LedgerRows]}
    /\ messages = <<>>
    /\ modals = {}
    /\ last = NoLast
    /\ steps = 0
    /\ sigIn = NoSig
    /\ sigOut = "none"
    /\ cardIn = NoCard
    /\ cardText = <<>>
    /\ cardOut = NoCard
    /\ procs = <<>>
    /\ decided = <<>>

NextLedger ==
    \/ /\ steps < MaxLedgerSteps
       /\ RecordFinance({"recordinvoice", "clearinvoice"}, {"c_fin"},
                        {[companyname |-> <<"A">>, invoicenumber |-> n,
                          invoicevalue |-> <<"1","0","0","0">>,
                          valuecleared |-> <<"4","0","0">>, comments |-> <<>>] :
                            n \in {<<"A","7">>, <<"8">>}})
    \/ steps < MaxLedgerSteps /\ ViewInvoice

SpecLedger == InitLedger /\ [][NextLedger]_vars

\* C35: the three aggregations of the invoice ledger agree.  For the same
\* Invoices and Invoice Clears rows and every invoice number, the
\* outstanding amount viewinvoice shows equals the one of
\* compute_fin_status's outstanding_by_invoice and the one
\* list_invoices_for_autocomplete gives, also for invoice numbers stored
\* with surrounding whitespace or stored empty.
C35_LedgerViewsAgree ==
    (/\ last.kind = "command" /\ last.name = "viewinvoice"
     /\ last.resp.msg.text = "Invoices")
        => \A i \in 1..Len(last.resp.msg.lines) :
              LET ln      == last.resp.msg.lines[i]
                  k       == Strip(ln.inv_no)
                  listing == list_invoices_for_autocomplete(<<>>)
              IN  /\ k \in DOMAIN compute_fin_status.outstanding_by_invoice
                  /\ ln.out = compute_fin_status.outstanding_by_invoice[k]
                  /\ \E j \in 1..Len(listing) :
                        listing[j].inv_no = k /\ listing[j].out = ln.out

(***************************************************************************)
(* SpecFrame: the interactions that only read or only open a modal, after  *)
(* the commands that write the rows and post the cards they look at.       *)
(***************************************************************************)
MaxFrameSteps == 2

\* the sheets after a user has logged in and out on day 1
AttendedSheets ==
    [EmptySheets EXCEPT !["Attendance"] =
        <<[ts |-> [kind |-> "str", fmt |-> "%Y %m %d-%H:%M:%S", day |-> 1],
           name |-> <<"S","a","m">>, action |-> "Login", user_id |-> "1",
           progress |-> <<>>],
          [ts |-> [kind |-> "str", fmt |-> "%Y %m %d-%H:%M:%S", day |-> 1],
           name |-> <<"S","a","m">>, action |-> "Logout", user_id |-> "1",
           progress |-> <<"o","k">>]>>]

InitFrame ==
    /\ cfg = CfgFull
    /\ today = 1
    /\ sheets \in {EmptySheets, AttendedSheets}
    /\ messages = <<>>
    /\ modals = {}
    /\ last = NoLast
    /\ steps = 0
    /\ sigIn = NoSig
    /\ sigOut = "none"
    /\ cardIn = NoCard
    /\ cardText = <<>>
    /\ cardOut = NoCard
    /\ procs = <<>>
    /\ decided = <<>>

NextFrame ==
    \/ steps < MaxFrameSteps /\ CmdAttendance({"c_att"})
    \/ steps < MaxFrameSteps /\ CmdLeaveRequest({"c_leave"}, {U1}, ReviewLeaveOpts)
    \/ steps < MaxFrameSteps /\ CmdWfh({"c_leave"}, {U1}, ReviewWfhOpts)
    \/ /\ steps < MaxFrameSteps
       /\ RequestReview({U1}, {"c_team"},
                        [text : {TRIP}, file : {[filename |-> <<"f">>, url |-> <<"u">>]}])
    \/ /\ steps < MaxFrameSteps
       /\ RecordFinance({"recordinvoice", "clearinvoice", "recordtax"}, {"c_fin"},
                        {[companyname |-> <<"A">>, invoicenumber |-> <<"7">>,
                          invoicevalue |-> <<"1","0","0","0">>,
                          valuecleared |-> <<"4","0","0">>,
                          taxtype |-> <<"G","S","T">>, taxvalue |-> <<"1","8">>,
                          comments |-> <<>>]})
    \/ steps < MaxFrameSteps /\ Ping
    \/ steps < MaxFrameSteps /\ Autocomplete
    \/ steps < MaxFrameSteps /\ ViewInvoice
    \/ steps < MaxFrameSteps /\ ViewFinStatus
    \/ steps < MaxFrameSteps /\ CmdLeaveCount
    \/ steps < MaxFrameSteps /\ CmdAuditMeet
    \/ steps < MaxFrameSteps /\ ClickLeaveReject
    \/ steps < MaxFrameSteps /\ ClickWfhReject
    \/ steps < MaxFrameSteps /\ ClickReview

SpecFrame == InitFrame /\ [][NextFrame]_vars

\* the last interaction is one of those that only read or only open a
\* modal: PING, an autocomplete request, viewinvoice, viewfinstatus,
\* leavecount, auditmeet, an attendance command issued when the user's
\* Login exists, a Reject click on a leave or WFH card, a click on a
\* button of a content or asset card
IsReadOnly ==
    \/ last.kind \in {"ping", "autocomplete"}
    \/ /\ last.kind = "command"
       /\ last.name \in {"viewinvoice", "viewfinstatus", "leavecount", "auditmeet"}
    \/ last.kind = "command" /\ last.name = "attendance" /\ last.pre.login
    \/ /\ last.kind = "component"
       /\ last.name \in {"leave_reject", "wfh_reject",
                         "cr_approve", "cr_reject", "ar_approve", "ar_reject"}

\* C36: read-only interactions leave all persistent and chat state
\* unchanged: a step that handles one of them appends no row to any sheet,
\* posts and edits no chat message, records no decision, and makes no
\* external call other than reads.
C36_ReadOnlyFrame ==
    [][IsReadOnly' =>
          /\ sheets' = sheets
          /\ messages' = messages
          /\ decided' = decided
          /\ \A e \in 1..Len(last'.effects) :
                last'.effects[e].op \in {"read", "reports_list"}]_vars

\* a Reject click on the card of a recorded leave request opened the modal
C36_Witness ==
    /\ last.kind = "component" /\ last.name = "leave_reject"
    /\ last.resp.type = 9
    /\ Len(sheets["Leave Requests"]) = 1
    /\ Len(messages) = 1 /\ ~messages[1].disabled

MaxCellSteps == 1

\* the day number of _SHEETS_EPOCH, 1899-12-30 (line 32): serial 45717 is
\* 2025-03-01, day number 1
EPOCH_DAY == -45716

\* sheets_serial_to_date_ist (lines 95-103): the date of epoch +
\* timedelta(days) read as UTC and converted to IST, "" (here 0) for a
\* value that float() rejects
sheets_serial_to_date_ist(cell) ==
    IF cell.kind # "num" THEN 0
    ELSE cell.day + ((cell.minute + 330) \div 1440)

\* the timestamp formats of the fallback chain the spec documents
ChainFormats ==
    {"%Y-%m-%d %H:%M:%S", "%Y-%m-%dT%H:%M:%S", "%Y-%m-%dT%H:%M:%SZ",
     "%d/%m/%Y %I:%M:%S %p", "%d/%m/%Y %H:%M:%S", "%d/%m/%Y"}

Cells ==
    [kind : {"num"}, day : {EPOCH_DAY, 1, 2}, minute : {0, 720, 1109, 1110}]
    \cup [kind : {"str"}, day : {1, 2}, minute : {600, 1200},
          fmt : ChainFormats \cup {"%Y-%m-%d-%H:%M:%S", "%Y %m %d-%H:%M:%S",
                                   "%Y/%m/%d %H:%M:%S", "%Y-%m-%d",
                                   "%Y-%m-%d %H:%M", "%Y-%m-%d %I:%M:%S %p",
                                   "%d %b %Y"}]
    \cup {[kind |-> "empty"]}

\* the date functions applied to one cell
ReadCell ==
    \E cell \in Cells :
        /\ last' = [kind     |-> "cell",
                    cell     |-> cell,
                    dt       |-> sheets_serial_to_dt_ist(cell),
                    date_ist |-> sheets_serial_to_date_ist(cell),
                    is_today |-> cell_is_today_ist(cell),
                    ts_date  |-> ts_cell_to_date_ist(cell),
                    today    |-> today]
        /\ steps' = steps + 1
        /\ UNCHANGED <<cfg, today, sheets, messages, modals,
                       sigIn, sigOut, cardIn, cardText, cardOut, procs, decided>>

InitCell ==
    /\ cfg = CfgFull
    /\ today = 1
    /\ sheets = EmptySheets
    /\ messages = <<>>
    /\ modals = {}
    /\ last = NoLast
    /\ steps = 0
    /\ sigIn = NoSig
    /\ sigOut = "none"
    /\ cardIn = NoCard
    /\ cardText = <<>>
    /\ cardOut = NoCard
    /\ procs = <<>>
    /\ decided = <<>>

NextCell ==
    \/ steps < MaxCellSteps /\ ReadCell
    \/ steps = 0 /\ Midnight

SpecCell == InitCell /\ [][NextCell]_vars

\* C21: for every serial s >= 0, with or without a time-of-day part, the
\* date sheets_serial_to_date_ist produces is the epoch plus floor(s) days,
\* and it is the date _sheets_serial_to_dt_ist yields for the same serial.
C21_SerialDateIsFloor ==
    (last.kind = "cell" /\ last.cell.kind = "num" /\ last.cell.day >= EPOCH_DAY) =>
        /\ last.date_ist = last.cell.day
        /\ last.date_ist = last.dt

\* the IST date of the instant a string cell of the documented chain
\* denotes
InstantDate(cell) ==
    IF cell.fmt = "%Y-%m-%dT%H:%M:%SZ"
    THEN cell.day + ((cell.minute + 330) \div 1440) ELSE cell.day

\* C26: for a string cell in any format of the documented fallback chain
\* that denotes an instant on today's IST date, _cell_is_today_ist returns
\* true, in agreement with _ts_cell_to_date_ist(cell) == today.
C26_TodayDetectionAcceptsChain ==
    (/\ last.kind = "cell" /\ last.cell.kind = "str"
     /\ last.cell.fmt \in ChainFormats
     /\ InstantDate(last.cell) = last.today) =>
        /\ last.is_today
        /\ last.ts_date = last.today

(***************************************************************************)
(* SpecCard: a request is formatted into its card and the card is parsed   *)
(* back.                                                                   *)
(***************************************************************************)
CardNames == {<<"S","a","m">>, <<"s","1">>, <<"A","*">>}

CardReasons == {<<>>, TRIP, <<"a", NL, "b">>}

\* what the request handlers hand to the card template: the stripped
\* display name, dates and reason
CardInputs ==
    [kind : {"leave", "wfh"}, name : CardNames, from : {ISO_DAY_1, ISO_DAY_3},
     to : {ISO_DAY_1, ISO_DAY_3}, reason : CardReasons]

InitCard ==
    /\ cardIn \in CardInputs
    /\ cardText = <<>>
    /\ cardOut = NoCard
    /\ cfg = CfgFull
    /\ today = 1
    /\ sheets = EmptySheets
    /\ messages = <<>>
    /\ modals = {}
    /\ last = NoLast
    /\ steps = 0
    /\ sigIn = NoSig
    /\ sigOut = "none"
    /\ procs = <<>>
    /\ decided = <<>>

FormatCard ==
    /\ cardText = <<>>
    /\ cardText' = IF cardIn.kind = "leave"
                   THEN LeaveCardText(cardIn.name, cardIn.from, cardIn.to, 1, cardIn.reason)
                   ELSE WfhCardText(cardIn.name, cardIn.from, cardIn.reason)
    /\ UNCHANGED <<cfg, today, sheets, messages, modals, last, steps,
                   sigIn, sigOut, cardIn, cardOut, procs, decided>>

ParseCard ==
    /\ cardText # <<>>
    /\ cardOut = NoCard
    /\ cardOut' = IF cardIn.kind = "leave"
                  THEN [p |-> parse_leave_card(cardText)]
                  ELSE [p |-> parse_wfh_card(cardText)]
    /\ UNCHANGED <<cfg, today, sheets, messages, modals, last, steps,
                   sigIn, sigOut, cardIn, cardText, procs, decided>>

NextCard == FormatCard \/ ParseCard

SpecCard == InitCard /\ [][NextCard]_vars

\* C10: for a name, date(s) and reason without label text (the reason may
\* be empty or span several lines), parsing the card that was formatted
\* from them gives back the name, the date(s) and the reason.
C10_CardRoundTrip ==
    cardOut # NoCard =>
        /\ cardOut.p.name = cardIn.name
        /\ cardOut.p.reason = cardIn.reason
        /\ IF cardIn.kind = "leave"
           THEN cardOut.p.from = cardIn.from /\ cardOut.p.to = cardIn.to
           ELSE cardOut.p.date = cardIn.from

(***************************************************************************)
(* SpecConc: two invocations of the attendance handlers in flight at once. *)
(* An invocation reads today's status (line 1203 or 2013) in one step and  *)
(* acts on what it read (lines 1205-1241 or 2014-2024) in a later one;     *)
(* steps of the two invocations interleave.  Every external call succeeds. *)
(* steps counts the invocations begun and those finished.                  *)
(***************************************************************************)
MaxConcSteps == 10

ProcIds == {1, 2}

IdleProc ==
    [pc |-> "idle", kind |-> "none", user |-> U1,
     obs |-> [has_login |-> FALSE, has_logout |-> FALSE], wrote |-> "none"]

\* the status an invocation acts on were it to read the sheet again
StatusReread(observed, current) == current

\* the status an invocation acts on: the one it read earlier
StatusUsed(observed, current) == observed

InitConc ==
    /\ cfg = CfgFull
    /\ today = 1
    /\ sheets = EmptySheets
    /\ messages = <<>>
    /\ modals = {}
    /\ last = NoLast
    /\ steps = 0
    /\ sigIn = NoSig
    /\ sigOut = "none"
    /\ cardIn = NoCard
    /\ cardText = <<>>
    /\ cardOut = NoCard
    /\ procs = [p \in ProcIds |-> IdleProc]
    /\ decided = <<>>

\* a verified attendance command from the attendance channel arrives
ConcBeginCommand(p) ==
    /\ procs[p].pc \in {"idle", "done"}
    /\ steps < MaxConcSteps
    /\ \E u \in Users :
         procs' = [procs EXCEPT ![p] = [IdleProc EXCEPT !.pc = "read",
                                           !.kind = "command", !.user = u]]
    /\ steps' = steps + 1
    /\ UNCHANGED <<cfg, today, sheets, messages, modals, last,
                   sigIn, sigOut, cardIn, cardText, cardOut, decided>>

\* the user a logout modal was opened for submits it
ConcBeginSubmit(p) ==
    /\ procs[p].pc \in {"idle", "done"}
    /\ steps < MaxConcSteps
    /\ \E m \in modals, u \in Users :
         /\ m.custom_id[1] = "att_logout_progress" /\ m.custom_id[2] = u.id
         /\ procs' = [procs EXCEPT ![p] = [IdleProc EXCEPT !.pc = "read",
                                             !.kind = "modal", !.user = u]]
         /\ modals' = modals \ {m}
    /\ steps' = steps + 1
    /\ UNCHANGED <<cfg, today, sheets, messages, last,
                   sigIn, sigOut, cardIn, cardText, cardOut, decided>>

\* has_login, has_logout = get_today_status(name, user_id)
ConcRead(p) ==
    /\ procs[p].pc = "read"
    /\ procs' = [procs EXCEPT ![p].pc = "act",
                              ![p].obs = get_today_status(DisplayName(procs[p].user),
                                                          procs[p].user.id)]
    /\ UNCHANGED <<cfg, today, sheets, messages, modals, last, steps,
                   sigIn, sigOut, cardIn, cardText, cardOut, decided>>

\* the rest of the handler, on the status read before
ConcAct(p) ==
    /\ procs[p].pc = "act"
    /\ LET u   == procs[p].user
           st  == StatusUsed(procs[p].obs, get_today_status(DisplayName(u), u.id))
           out == IF procs[p].kind = "command"
                  THEN attendance_act(u, "c_att", [read |-> TRUE, append |-> TRUE, chat |-> TRUE], st)
                  ELSE att_logout_progress_act(u, "c_att", <<>>, [read |-> TRUE, append |-> TRUE, chat |-> TRUE], st)
       IN  /\ sheets' = out.sheets
           /\ modals' = out.modals
           /\ procs' = [procs EXCEPT
                  ![p].pc = "done",
                  ![p].wrote =
                      IF Len(out.sheets["Attendance"]) > Len(sheets["Attendance"])
                      THEN out.sheets["Attendance"][Len(out.sheets["Attendance"])].action
                      ELSE "none"]
    /\ steps' = steps + 1
    /\ UNCHANGED <<cfg, today, messages, last,
                   sigIn, sigOut, cardIn, cardText, cardOut, decided>>

NextConc ==
    \E p \in ProcIds :
        \/ ConcBeginCommand(p)
        \/ ConcBeginSubmit(p)
        \/ ConcRead(p)
        \/ ConcAct(p)

SpecConc == InitConc /\ [][NextConc]_vars

\* the invocations p and q ran for the same user and have both finished
\* after reading the same status
SameObservation(p, q) ==
    /\ procs[p].pc = "done" /\ procs[q].pc = "done"
    /\ procs[p].kind = procs[q].kind
    /\ procs[p].user = procs[q].user
    /\ procs[p].obs = procs[q].obs

\* the number of Attendance rows of this user, action and day
RowCount(user, action, day) ==
    Cardinality({i \in 1..Len(sheets["Attendance"]) :
                    /\ RowIdentity(sheets["Attendance"][i]) = UserIdentity(user)
                    /\ sheets["Attendance"][i].action = action
                    /\ sheets["Attendance"][i].ts.day = day})

\* C5: nothing is locked between the status read and the append: a finished
\* invocation has acted on the status it read, whatever was appended in
\* between.  A command that read "no Login" has appended a Login row and a
\* modal submit that read "Login, no Logout" has appended a Logout row; so
\* two invocations that read the same status both append.
C5_ActsOnStaleStatus ==
    \A p \in ProcIds :
        procs[p].pc = "done" =>
            /\ (procs[p].kind = "command" /\ ~procs[p].obs.has_login)
                  => procs[p].wrote = "Login"
            /\ (/\ procs[p].kind = "modal"
                /\ procs[p].obs.has_login /\ ~procs[p].obs.has_logout)
                  => procs[p].wrote = "Logout"

\* two logout-modal submits of one user read "Login, no Logout" and both
\* appended, after two commands of that user had read "no Login" and both
\* appended: the day holds two Login rows and two Logout rows for the user
C5_Witness ==
    /\ SameObservation(1, 2)
    /\ procs[1].kind = "modal"
    /\ procs[1].wrote = "Logout" /\ procs[2].wrote = "Logout"
    /\ RowCount(procs[1].user, "Login", today) = 2
    /\ RowCount(procs[1].user, "Logout", today) = 2

(***************************************************************************)
(* SpecClock: the invocations of SpecConc with the IST clock running: the  *)
(* status check (today_ist_date at line 503, under get_today_status) and   *)
(* the timestamp of the appended row (get_ist_timestamp under              *)
(* append_attendance_row) read the clock separately, and midnight may pass *)
(* between them.                                                           *)
(***************************************************************************)
NextClock ==
    \/ \E p \in ProcIds : ConcBeginCommand(p)
    \/ \E p \in ProcIds : ConcBeginSubmit(p)
    \/ \E p \in ProcIds : ConcRead(p)
    \/ \E p \in ProcIds : ConcAct(p)
    \/ Midnight

SpecClock == InitConc /\ [][NextClock]_vars

\* C32: every Logout row of the Attendance sheet is preceded in the sheet
\* by a Login row of the same user identity whose timestamp is on the same
\* IST calendar day as the Logout row's.
C32_LogoutAfterSameDayLogin ==
    \A i \in 1..Len(sheets["Attendance"]) :
        sheets["Attendance"][i].action = "Logout"
            => \E j \in 1..(i - 1) :
                  /\ sheets["Attendance"][j].action = "Login"
                  /\ RowIdentity(sheets["Attendance"][j]) = RowIdentity(sheets["Attendance"][i])
                  /\ sheets["Attendance"][j].ts.day = sheets["Attendance"][i].ts.day

====
